---- MODULE Spec2Model ----
(***************************************************************************)
(* EduMentor AI: the orchestration core (OrchestratorAgent.route_query),   *)
(* the Memory Store (MemoryBank), the Session Store (SessionManager) and   *)
(* the Observability Sink (ObservabilityManager), as state machines.       *)
(*                                                                         *)
(* Texts are modelled by a tag (what the text is) and a length, so that    *)
(* Python slices (text[:n]) are computed and not taken as the identity.    *)
(* Python dicts are functions whose DOMAIN is the set of keys present.     *)
(*                                                                         *)
(* SpecMem drives the Memory Store through its public operations, deep     *)
(* enough to pass the cap of the interactions log.  Spec is the            *)
(* orchestrator: route_query from its start to its return, one suspension  *)
(* point at a time, with start_learning_session, end_session,              *)
(* identify_gaps and the clock as its environment.  As in main.py's loops, *)
(* the caller awaits one operation before it issues the next, so the only  *)
(* interleaving inside a call is that of the two tasks of the practice     *)
(* plan.                                                                   *)
(***************************************************************************)
EXTENDS Integers, Sequences, FiniteSets, TLC

VARIABLES
    cache,            \* MemoryBank.cache : student_id -> memory dict
    disk_ok,          \* environment: writes below storage_dir succeed
    added,            \* history variable: every entry built by add_interaction, per student
    plan,             \* inputs of the Memory Store run: the cycle of (query, intent, response)
    profile_ops,      \* number of profile mutations made so far (bounded)
    sessions,         \* SessionManager.sessions : session_id -> session dict
    student_sessions, \* SessionManager.student_sessions : student_id -> session_id
    session_history,  \* SessionManager.session_history : student_id -> ended sessions
    created,          \* number of session ids drawn so far (uuid4 never repeats)
    progress,         \* ProgressStorageTool's files : student_id -> progress dict
    started,          \* history variable: the session id the last start_learning_session left current, per student
    pairs,            \* history variable: every pair update_session appended, per session id
    threads,          \* the worker threads inside add_interaction: where each is and its locals
    observed,         \* the total_interactions a concurrent get_student_context returned last
    traces,           \* ObservabilityManager.traces : trace_id -> trace dict
    metrics,          \* ObservabilityManager.metrics : metric name -> entries
    performance_data, \* ObservabilityManager.performance_data
    clock,            \* time.time() in whole seconds
    calls             \* the route_query calls: where each is and what it holds

memVars == <<cache, disk_ok, added, plan, profile_ops>>
sessVars == <<sessions, student_sessions, session_history, created, progress>>
obsVars == <<traces, metrics, performance_data>>
sessHist == <<started, pairs>>
threadVars == <<threads, observed>>
vars == <<cache, disk_ok, added, plan, profile_ops,
          sessions, student_sessions, session_history, created, progress,
          started, pairs, threads, observed,
          traces, metrics, performance_data, clock, calls>>

----------------------------------------------------------------------------
(* Bounds *)

MaxAdds == 52          \* add_interaction calls in one run (must exceed the cap)
MaxOtherAdds == 1      \* add_interaction calls for the student with the shorter history
MaxProfileOps == 1     \* profile mutations in one Memory Store run
MaxRoutes == 1         \* route_query calls in one run
MaxSessionStarts == 1  \* start_learning_session calls for one student in one run
MaxTime == 1           \* seconds that pass in one run
MaxBurst == 2          \* route_query calls in one burst
MaxEvents == 2         \* add_trace_event calls on one trace in a sink run
MaxThreads == 2        \* worker threads inside add_interaction at one time
MaxDiskAdds == 2       \* add_interaction calls for one student in a run with storage faults
MaxSessions == 2       \* session ids drawn in one Session Store run
MaxStarts == 2         \* start_learning_session calls in one Session Store run
MaxPairs == 1          \* update_session calls that find their session, in one Session Store run
MaxHours == 1          \* hours that pass in one Session Store run
MaxCapPairs == 52      \* update_session calls on the first session of a long run (must exceed the cap)
MaxOtherPairs == 1     \* update_session calls on each later session of a long run
MaxExcess == 2         \* entries of a stored record beyond the 50 that add_interaction keeps
MaxCompactAdds == 2    \* add_interaction calls after a stored record was loaded
MaxProfileCalls == 3   \* profile operations in one run of profile operations
MaxOwnSessions == 3    \* session ids drawn in one run of the store shared by two students

(* Program constants *)

HistoryCap == 50       \* memory_bank.py:128-129, "Keep only last 50 interactions"
SummaryLen == 200      \* memory_bank.py:120, response[:200]
DefaultThreshold == 100 \* memory_bank.py:267, threshold: int = 100
MessageCap == 50       \* session_manager.py:113-114
ContextLen == 500      \* main.py:115, explanation[:500]
ExplainFrame == 206    \* concept_explainer_agent.py:115-123, the text around the reply
QuizFrame == 200       \* quiz_generator_agent.py:108-117, the text around the quiz

----------------------------------------------------------------------------
(* Values *)

Students == {"s1", "s2"}
Intents == {"explanation", "practice", "progress", "homework", "general"}
None == "None"

\* The queries of the runs, and the keywords of memory_bank.py:253-259 that
\* occur in query.lower() (Python's `keyword in query_lower`, a substring test).
Queries == {"explain photosynthesis", "Solve this algebra equation", "hello there",
            "history of the atom"}

KeywordsIn(q) ==
    CASE q = "explain photosynthesis"      -> {"photosynthesis"}
      [] q = "Solve this algebra equation" -> {"algebra", "equation"}
      [] q = "hello there"                 -> {}
      [] q = "history of the atom"         -> {"history", "atom"}
      [] OTHER                             -> {}

\* topics = {...} of _extract_topic, in dict (insertion) order
TopicOrder == <<"math", "science", "english", "history", "computer">>

TopicKeywords(t) ==
    CASE t = "math"     -> {"algebra", "geometry", "calculus", "equation", "formula", "math"}
      [] t = "science"  -> {"biology", "chemistry", "physics", "photosynthesis", "atom", "force"}
      [] t = "english"  -> {"grammar", "writing", "essay", "literature", "reading"}
      [] t = "history"  -> {"history", "war", "ancient", "civilization"}
      [] t = "computer" -> {"programming", "code", "algorithm", "python", "java"}
      [] OTHER          -> {}

Topics == {TopicOrder[i] : i \in 1..Len(TopicOrder)}

\* A text: the pieces it is made of, in order, and how long it is.
Text(tag, len) == [parts |-> <<tag>>, len |-> len]
\* Python's None where a text is expected
NoneText == [parts |-> <<>>, len |-> 0]
IsNone(x) == x.parts = <<>>
\* a + b on texts
Concat(a, b) == [parts |-> a.parts \o b.parts, len |-> a.len + b.len]
\* f"{x}": None is formatted as the four characters None
Str(x) == IF IsNone(x) THEN Text("None", 4) ELSE x

Min(a, b) == IF a < b THEN a ELSE b
Max(a, b) == IF a > b THEN a ELSE b

\* Python text[:n]
Prefix(x, n) == [parts |-> x.parts, len |-> Min(x.len, n)]

\* Python seq[-n:] for n > 0
LastN(seq, n) == SubSeq(seq, Max(1, Len(seq) - n + 1), Len(seq))
\* Python seq[:-n] for n > 0
AllButLastN(seq, n) == SubSeq(seq, 1, Max(0, Len(seq) - n))

EmptyDict == [k \in {} |-> 0]

\* d[k] = v on a dict
DictSet(d, k, v) == [x \in (DOMAIN d) \cup {k} |-> IF x = k THEN v ELSE d[x]]

----------------------------------------------------------------------------
(* Memory Store: memory_bank.py *)

\* _extract_topic: the first topic, in dict order, one of whose keywords occurs
FirstTopicFrom(q, i) ==
    LET Hit(j) == TopicKeywords(TopicOrder[j]) \cap KeywordsIn(q) # {}
        hits == {j \in i..Len(TopicOrder) : Hit(j)}
    IN IF hits = {} THEN None
       ELSE TopicOrder[CHOOSE j \in hits : \A k \in hits : j <= k]

extract_topic(q) == FirstTopicFrom(q, 1)

\* the memory dict of _init_memory
NewMemory(s, now) ==
    [ student_id |-> s,
      created_at |-> now,
      profile |-> [ level |-> "intermediate",
                    learning_style |-> "visual",
                    strengths |-> <<>>,
                    gaps |-> <<>>,
                    interests |-> <<>> ],
      interactions |-> <<>>,
      topics_studied |-> EmptyDict,
      performance_history |-> <<>>,
      preferences |-> [ explanation_detail |-> "medium",
                        practice_difficulty |-> "medium" ],
      context_summary |-> [ text |-> "", counts |-> EmptyDict ] ]

\* _save_memory: the cache is updated only after the file was written
save_memory(c, s, memory, ok) ==
    IF ok THEN DictSet(c, s, memory) ELSE c

\* _init_memory: returns the new dict and saves it
init_memory(c, s, ok, now) ==
    [ memory |-> NewMemory(s, now),
      cache  |-> save_memory(c, s, NewMemory(s, now), ok) ]

\* _load_memory: the cached dict, or a new one (no files exist before the
\* process wrote them, and a file it wrote is in the cache)
load_memory(c, s, ok, now) ==
    IF s \in DOMAIN c
    THEN [ memory |-> c[s], cache |-> c ]
    ELSE init_memory(c, s, ok, now)

\* A mutation made on the dict that _load_memory returned is made on the
\* cached object when the student is cached (Python aliasing).
InPlace(c, s, memory) ==
    IF s \in DOMAIN c THEN DictSet(c, s, memory) ELSE c

\* memory_bank.py:117-123
Interaction(q, response, intent, now) ==
    [ timestamp |-> now,
      query |-> q,
      response_summary |-> Prefix(response, SummaryLen),
      intent |-> intent,
      topic |-> extract_topic(q) ]

\* the trim with the comparison off by one (> 51 for > 50)
AppendCapped_LateTrim(interactions, e) ==
    LET appended == Append(interactions, e)
    IN IF Len(appended) > HistoryCap + 1 THEN LastN(appended, HistoryCap) ELSE appended

\* the trim keeping the head of the list ([:50] for [-50:])
AppendCapped_KeepHead(interactions, e) ==
    LET appended == Append(interactions, e)
    IN IF Len(appended) > HistoryCap THEN SubSeq(appended, 1, HistoryCap) ELSE appended

\* memory_bank.py:125-129: append, then keep the last 50
AppendCapped(interactions, e) ==
    LET appended == Append(interactions, e)
    IN IF Len(appended) > HistoryCap THEN LastN(appended, HistoryCap) ELSE appended

\* memory_bank.py:131-140
CountTopic(topics_studied, topic, now) ==
    IF topic = None THEN topics_studied
    ELSE LET base == IF topic \in DOMAIN topics_studied
                     THEN topics_studied[topic]
                     ELSE [first_seen |-> now, count |-> 0, last_seen |-> now]
         IN DictSet(topics_studied, topic,
                    [base EXCEPT !.count = @ + 1, !.last_seen = now])

\* add_interaction on the loaded dict
AddToMemory(memory, q, response, intent, now) ==
    LET e == Interaction(q, response, intent, now)
    IN [memory EXCEPT !.interactions = AppendCapped(@, e),
                      !.topics_studied = CountTopic(@, e.topic, now)]

\* add_interaction: load, mutate in place, save
add_interaction(c, s, q, response, intent, ok, now) ==
    LET L == load_memory(c, s, ok, now)
        m == AddToMemory(L.memory, q, response, intent, now)
    IN save_memory(InPlace(L.cache, s, m), s, m, ok)

\* get_student_context: the projection of memory_bank.py:153-168
RecentTopics(interactions) ==
    LET last5 == LastN(interactions, 5)
    IN {last5[i].topic : i \in 1..Len(last5)} \ {None}

get_student_context(c, s, ok, now) ==
    LET m == load_memory(c, s, ok, now).memory
    IN [ level |-> m.profile.level,
         learning_style |-> m.profile.learning_style,
         strengths |-> m.profile.strengths,
         gaps |-> m.profile.gaps,
         interests |-> m.profile.interests,
         recent_topics |-> RecentTopics(m.interactions),
         total_interactions |-> Len(m.interactions),
         preferences |-> m.preferences ]

\* get_interaction_history: interactions[-limit:], limit > 0
get_interaction_history(c, s, limit, ok, now) ==
    LastN(load_memory(c, s, ok, now).memory.interactions, limit)

Contains(seq, x) == \E i \in 1..Len(seq) : seq[i] = x

\* update_student_profile(**kwargs) with one keyword: only keys of profile are set
update_student_profile(c, s, key, value, ok, now) ==
    LET L == load_memory(c, s, ok, now)
        m == IF key \in DOMAIN L.memory.profile
             THEN [L.memory EXCEPT !.profile[key] = value]
             ELSE L.memory
    IN save_memory(InPlace(L.cache, s, m), s, m, ok)

\* add_strength: append and save only when absent
add_strength(c, s, strength, ok, now) ==
    LET L == load_memory(c, s, ok, now)
        m == [L.memory EXCEPT !.profile.strengths = Append(@, strength)]
    IN IF Contains(L.memory.profile.strengths, strength)
       THEN L.cache
       ELSE save_memory(InPlace(L.cache, s, m), s, m, ok)

\* add_gap: append and save only when absent
add_gap(c, s, gap, ok, now) ==
    LET L == load_memory(c, s, ok, now)
        m == [L.memory EXCEPT !.profile.gaps = Append(@, gap)]
    IN IF Contains(L.memory.profile.gaps, gap)
       THEN L.cache
       ELSE save_memory(InPlace(L.cache, s, m), s, m, ok)

\* update_student_gaps: replaces the list
update_student_gaps(c, s, gaps, ok, now) ==
    LET L == load_memory(c, s, ok, now)
        m == [L.memory EXCEPT !.profile.gaps = gaps]
    IN save_memory(InPlace(L.cache, s, m), s, m, ok)

\* topic_counts of compact_old_memories: a defaultdict(int) over the old entries
TopicCounts(old) ==
    LET seen == {old[i].topic : i \in 1..Len(old)} \ {None}
    IN [t \in seen |-> Cardinality({i \in 1..Len(old) : old[i].topic = t})]

\* compaction with recent and old taken for each other
compact_old_memories_KeepOld(c, s, threshold, ok, now) ==
    LET L == load_memory(c, s, ok, now)
        recent == LastN(L.memory.interactions, 50)
        old == AllButLastN(L.memory.interactions, 50)
        m == [L.memory EXCEPT
                !.context_summary = [ text |-> "Earlier sessions covered",
                                      counts |-> TopicCounts(recent) ],
                !.interactions = old]
    IN IF Len(L.memory.interactions) < threshold
       THEN L.cache
       ELSE save_memory(InPlace(L.cache, s, m), s, m, ok)

\* compaction without the early return of line 278
compact_old_memories_NoGuard(c, s, threshold, ok, now) ==
    LET L == load_memory(c, s, ok, now)
        recent == LastN(L.memory.interactions, 50)
        old == AllButLastN(L.memory.interactions, 50)
        m == [L.memory EXCEPT
                !.context_summary = [ text |-> "Earlier sessions covered",
                                      counts |-> TopicCounts(old) ],
                !.interactions = recent]
    IN save_memory(InPlace(L.cache, s, m), s, m, ok)

\* compact_old_memories
compact_old_memories(c, s, threshold, ok, now) ==
    LET L == load_memory(c, s, ok, now)
        recent == LastN(L.memory.interactions, 50)
        old == AllButLastN(L.memory.interactions, 50)
        m == [L.memory EXCEPT
                !.context_summary = [ text |-> "Earlier sessions covered",
                                      counts |-> TopicCounts(old) ],
                !.interactions = recent]
    IN IF Len(L.memory.interactions) < threshold
       THEN L.cache
       ELSE save_memory(InPlace(L.cache, s, m), s, m, ok)

----------------------------------------------------------------------------
(* Session Store: session_manager.py *)

\* str(uuid.uuid4()): the ids drawn, in the order they are drawn
SessionIdPool == <<"sess1">>
\* what a caller may pass as session_id: an id is unknown to the store until
\* it is drawn, and again after its session ended
SessionIds == {SessionIdPool[i] : i \in 1..Len(SessionIdPool)}

\* create_session: a new session dict under a new id, which becomes the
\* student's current session
NewSession(id, s, t) ==
    [ session_id |-> id,
      student_id |-> s,
      created_at |-> t,
      last_activity |-> t,
      messages |-> <<>>,
      state |-> EmptyDict,
      context |-> EmptyDict ]

AppendMessage_KeepHead(messages, pair) ==
    LET appended == Append(messages, pair)
    IN IF Len(appended) > MessageCap THEN SubSeq(appended, 1, MessageCap) ELSE appended

\* session_manager.py:109-114 on the messages list
AppendMessage(messages, pair) ==
    LET appended == Append(messages, pair)
    IN IF Len(appended) > MessageCap THEN LastN(appended, MessageCap) ELSE appended

\* update_session: nothing happens (False is returned) for an id that is not active
update_session(ss, id, user_message, agent_response, t) ==
    IF id \notin DOMAIN ss
    THEN ss
    ELSE LET pair == [timestamp |-> t, user |-> user_message, agent |-> agent_response]
         IN DictSet(ss, id, [ss[id] EXCEPT !.messages = AppendMessage(@, pair),
                                           !.last_activity = t])

\* what update_session returns, lines 97-100 and 116
update_session_value(ss, id) == id \in DOMAIN ss

\* del d[k]
DictDel(d, k) == [x \in (DOMAIN d) \ {k} |-> d[x]]

\* session_history is a defaultdict(list)
HistoryOf(h, s) == IF s \in DOMAIN h THEN h[s] ELSE <<>>

\* the three maps of a SessionManager, as the operations below take and
\* return them
SessionStore ==
    [ sessions |-> sessions,
      student_sessions |-> student_sessions,
      session_history |-> session_history ]

\* create_session: no look at student_sessions before it is overwritten
create_session(st, id, s, t) ==
    [st EXCEPT !.sessions = DictSet(@, id, NewSession(id, s, t)),
               !.student_sessions = DictSet(@, s, id)]

\* dict.get
get_session(st, id) ==
    IF id \in DOMAIN st.sessions THEN st.sessions[id] ELSE None

get_current_session(st, s) ==
    IF s \in DOMAIN st.student_sessions THEN st.student_sessions[s] ELSE None

\* set_session_state: the store after the call and the value returned
set_session_state(st, id, key, value) ==
    IF id \notin DOMAIN st.sessions
    THEN [store |-> st, value |-> FALSE]
    ELSE [store |-> [st EXCEPT !.sessions =
                        DictSet(@, id, [@[id] EXCEPT !.state = DictSet(@, key, value)])],
          value |-> TRUE]

end_session_KeepActive(st, id, t) ==
    IF id \notin DOMAIN st.sessions
    THEN [store |-> st, value |-> FALSE]
    ELSE LET s == st.sessions[id].student_id
         IN [store |->
               [st EXCEPT !.session_history =
                    DictSet(@, s, Append(HistoryOf(@, s),
                                         DictSet(st.sessions[id], "ended_at", t)))],
             value |-> TRUE]

\* end_session without the test of line 213: the student's current id is
\* cleared whichever session of the student ends
end_session_AlwaysClear(st, id, t) ==
    IF id \notin DOMAIN st.sessions
    THEN [store |-> st, value |-> FALSE]
    ELSE LET s == st.sessions[id].student_id
         IN [store |->
               [ sessions |-> DictDel(st.sessions, id),
                 student_sessions |-> DictDel(st.student_sessions, s),
                 session_history |->
                    DictSet(st.session_history, s,
                            Append(HistoryOf(st.session_history, s),
                                   DictSet(st.sessions[id], "ended_at", t))) ],
             value |-> TRUE]

\* end_session: the session dict, stamped, moves to its student's history;
\* the student's current id is cleared only if it is this id
end_session(st, id, t) ==
    IF id \notin DOMAIN st.sessions
    THEN [store |-> st, value |-> FALSE]
    ELSE LET s == st.sessions[id].student_id
         IN [store |->
               [ sessions |-> DictDel(st.sessions, id),
                 student_sessions |->
                    IF s \in DOMAIN st.student_sessions /\ st.student_sessions[s] = id
                    THEN DictDel(st.student_sessions, s)
                    ELSE st.student_sessions,
                 session_history |->
                    DictSet(st.session_history, s,
                            Append(HistoryOf(st.session_history, s),
                                   DictSet(st.sessions[id], "ended_at", t))) ],
             value |-> TRUE]

\* session_manager.py:274, total_seconds() / 3600
SecondsPerHour == 3600

InactiveSessions_AtLeast(st, order, max_age_hours, t) ==
    SelectSeq(order,
              LAMBDA id : /\ id \in DOMAIN st.sessions
                          /\ t - st.sessions[id].last_activity
                                >= max_age_hours * SecondsPerHour)

\* session_manager.py:272-277: the ids whose age in hours exceeds
\* max_age_hours, in the order the dict holds them (the order of creation)
InactiveSessions(st, order, max_age_hours, t) ==
    SelectSeq(order,
              LAMBDA id : /\ id \in DOMAIN st.sessions
                          /\ t - st.sessions[id].last_activity
                                > max_age_hours * SecondsPerHour)

\* session_manager.py:280-281
RECURSIVE EndEach(_, _, _)
EndEach(st, ids, t) ==
    IF ids = <<>> THEN st
    ELSE EndEach(end_session(st, Head(ids), t).store, Tail(ids), t)

cleanup_inactive_sessions(st, order, max_age_hours, t) ==
    LET inactive_sessions == InactiveSessions(st, order, max_age_hours, t)
    IN [store |-> EndEach(st, inactive_sessions, t),
        value |-> Len(inactive_sessions)]

----------------------------------------------------------------------------
(* Observability Sink: observability.py *)

\* the trace id of main.py:95, f"query_{student_id}_{int(time.time())}"
TraceId(s, t) == <<"query", s, t>>

\* start_trace: (re)places the trace dict under trace_id
start_trace(tr, id, operation, metadata, t) ==
    DictSet(tr, id, [ trace_id |-> id,
                      operation |-> operation,
                      start_time |-> t,
                      metadata |-> metadata,
                      events |-> <<>>,
                      status |-> "in_progress" ])

\* add_trace_event: appended to any trace that is in the dict
add_trace_event(tr, id, event_name, data, t) ==
    IF id \notin DOMAIN tr
    THEN tr
    ELSE DictSet(tr, id, [tr[id] EXCEPT !.events =
                    Append(@, [timestamp |-> t, event |-> event_name, data |-> data])])

\* end_trace: sets end_time, duration, status and result
end_trace(tr, id, status, result, t) ==
    IF id \notin DOMAIN tr
    THEN tr
    ELSE DictSet(tr, id,
            DictSet(DictSet(DictSet(DictSet(tr[id],
                "end_time", t),
                "duration", t - tr[id].start_time),
                "status", status),
                "result", result))

\* metrics is a defaultdict(list)
record_metric(ms, metric_name, value, tags, t) ==
    LET old == IF metric_name \in DOMAIN ms THEN ms[metric_name] ELSE <<>>
    IN DictSet(ms, metric_name,
               Append(old, [timestamp |-> t, metric |-> metric_name,
                            value |-> value, tags |-> tags]))

\* log_performance: the entry appended to performance_data
PerfEntry(component, operation, duration, success, t) ==
    [ timestamp |-> t, component |-> component, operation |-> operation,
      duration |-> duration, success |-> success ]

----------------------------------------------------------------------------
(* The completion service and the agents: agents/*.py, tools/*.py *)

\* len(query)
QueryLen(q) ==
    CASE q = "explain photosynthesis"      -> 22
      [] q = "Solve this algebra equation" -> 27
      [] q = "hello there"                 -> 11
      [] q = "history of the atom"         -> 19
      [] OTHER                             -> 0

\* KnowledgeBaseTool.retrieve: the number of facts found for the query (at
\* most max_results = 5): two per subject or topic named in the query, then
\* every fact that contains a word of the query longer than 3 characters
KBFactCount(q) ==
    CASE q = "explain photosynthesis"      -> 1
      [] q = "Solve this algebra equation" -> 2
      [] q = "hello there"                 -> 0
      [] q = "history of the atom"         -> 1
      [] OTHER                             -> 0

\* an exception: str(e), whether the text names RESOURCE_EXHAUSTED or 429, and
\* the delay of "retry in <n>s" in tenths of a second (-1: no delay in the text)
Exc(text, len, quota, retry) ==
    [text |-> text, len |-> len, quota |-> quota, retry |-> retry]
NoError == Exc("", 0, FALSE, -1)
\* ', '.join(items) with an item that is not a str
JoinTypeError == Exc("sequence item 0: expected str instance, dict found", 50, FALSE, -1)
\* response[:200] with response None
NoneTypeError == Exc("'NoneType' object is not subscriptable", 38, FALSE, -1)
\* what the completion service raises
QuotaError == Exc("429 RESOURCE_EXHAUSTED ... Please retry in 30s", 46, TRUE, 300)
ServiceError == Exc("503 UNAVAILABLE", 15, FALSE, -1)

\* the outcomes of one completion-service invocation: a long text ("ok"), a
\* short text, a response without text ("none"; async_chat always extracts
\* a str, so only the agents that read response.text see it), a quota error,
\* another error
ExplainOutcomes == {"ok", "quota"}
QuizOutcomes == {"ok", "quota"}
TeachOutcomes == {"ok", "none", "quota"}
ProgressOutcomes == {"ok", "quota"}

OutcomeError(o) == IF o = "quota" THEN QuotaError ELSE ServiceError

\* error_utils.format_error
format_error(e) ==
    IF e.quota
    THEN IF e.retry >= 10    \* int(float(n)) is truthy
         THEN Text("The language API quota was exceeded. Please try again in ~n seconds.", 69)
         ELSE Text("The language API quota was exceeded. Please check your API key / billing or try again later.", 92)
    ELSE Text("An internal error occurred while processing your request.", 101 + Min(e.len, 100))

\* items of a profile list that are not Python strings (a JSON object that
\* identify_gaps took from the model's JSON array)
NonStrItems == {"{'topic': 'fractions'}"}
\* ', '.join(xs) if xs else ... raises TypeError
BadJoin(xs) == \E i \in 1..Len(xs) : xs[i] \in NonStrItems

\* TutorAgent.teach, lines 80-95: response.text, or the apology
TeachResult(o) ==
    CASE o = "ok"    -> Text("tutor: response.text", 900)
      [] o = "short" -> Text("tutor: response.text", 120)
      [] o = "none"  -> NoneText
      [] OTHER       -> Concat(Text("I apologize, I'm having trouble processing that. ", 49),
                               format_error(OutcomeError(o)))

\* async_chat: _extract_response_text always yields a str
ChatText(o) ==
    CASE o = "ok"    -> 1200
      [] o = "short" -> 100
      [] OTHER       -> 0

\* ConceptExplainerAgent.explain, lines 105-126
ExplainResult(q, o) ==
    IF o \in {"quota", "error"}
    THEN Concat(Text("Error explaining concept: ", 26), format_error(OutcomeError(o)))
    ELSE Text("explanation", ExplainFrame + QueryLen(q) + ChatText(o))

\* QuizGeneratorAgent.generate_quiz, lines 97-121; topic is prefix + query
QuizResult(prefixLen, q, o) ==
    IF o \in {"quota", "error"}
    THEN Concat(Text("Error generating quiz: ", 23), format_error(OutcomeError(o)))
    ELSE Text("quiz", QuizFrame + prefixLen + QueryLen(q) + ChatText(o))

\* ProgressTrackerAgent.analyze_progress, lines 104-129
ProgressResult(o) ==
    IF o \in {"quota", "error"}
    THEN Concat(Text("Error generating progress report: ", 34),
                Text(OutcomeError(o).text, OutcomeError(o).len))
    ELSE Text("progress report", 250 + (IF o = "none" THEN 4 ELSE ChatText(o)))

\* analyze_progress, lines 46-56: no history yet
GettingStarted == Text("progress report: just getting started", 330)

----------------------------------------------------------------------------
(* Orchestrator: main.py *)

\* the words of the classifier's reply, in order
IntentReplies ==
    { <<"explanation">>, <<"practice">>, <<"Progress">>, <<"homework">>, <<"general">>,
      <<"quiz">>, <<"HOMEWORK", "or", "practice">> }

\* str.lower() on the words of the replies
Lower(w) ==
    CASE w = "Progress" -> "progress"
      [] w = "HOMEWORK" -> "homework"
      [] OTHER          -> w

\* the classifier without the validation of lines 250-255: the stripped reply
determine_intent_Unvalidated(raised, words) ==
    IF raised \/ words = <<>> THEN "general" ELSE Lower(words[1])

\* _determine_intent, lines 238-260: the leftmost token of the lowercased
\* reply, general when there is none or when the call raised
determine_intent(raised, words) ==
    LET hits == {i \in 1..Len(words) : Lower(words[i]) \in Intents}
    IN IF raised \/ hits = {} THEN "general"
       ELSE Lower(words[CHOOSE i \in hits : \A j \in hits : i <= j])

\* main.py:174-207: the text returned by the except block; kb_raised: the
\* local lookup (the import, KnowledgeBaseTool() or retrieve) raised, which
\* lines 197-199 swallow
ErrorResponseWith(e, q, kb_raised) ==
    IF e.quota
    THEN IF ~ kb_raised /\ KBFactCount(q) > 0
         THEN Concat(Concat(Text("I couldn't reach the language API right now due to quota limits", 147),
                            Text("knowledge base facts", 40 * KBFactCount(q))),
                     Text("(This is a limited fallback ...)", 80))
         ELSE IF e.retry > 0
              THEN Text("the language API quota was exceeded. Please try again in ~n seconds.", 83)
              ELSE Text("the language API quota was exceeded. Please check your API key / billing", 104)
    ELSE Concat(Concat(Text("I apologize, but I encountered an error processing your request: ", 65),
                       Text(e.text, e.len)),
                Text("Please try rephrasing your question", 68))

ErrorResponse(e, q) == ErrorResponseWith(e, q, FALSE)

CallIds == 1..MaxRoutes

\* a worker thread that has not entered add_interaction
ThreadIds == 1..MaxThreads
IdleThread == [pc |-> "idle", interaction |-> None, trimmed |-> <<>>]

\* the parts of the stores a call may change: the student's log and topic
\* counts, and the session named by session_id (absent: the empty sequence)
Snapshot(c, ss, s, sid) ==
    [ interactions |-> IF s \in DOMAIN c THEN c[s].interactions ELSE <<>>,
      topics_studied |-> IF s \in DOMAIN c THEN c[s].topics_studied ELSE EmptyDict,
      session |-> IF sid \in DOMAIN ss THEN <<ss[sid]>> ELSE <<>> ]
NoBefore == Snapshot(EmptyDict, EmptyDict, "", "")

NoTask == [st |-> "none", text |-> NoneText, err |-> NoError]

IdleCall ==
    [ pc |-> "idle", query |-> "", student_id |-> "", session_id |-> "",
      trace_id |-> TraceId("", 0), start_time |-> 0,
      before |-> NoBefore,         \* history: what the call found when it started
      classifier |-> "",           \* history: raised, no_token or token
      intent |-> "",
      steps |-> <<>>,              \* history: agent operations invoked and returned
      stage1 |-> NoneText,         \* the first stage's output in a sequential plan
      quiz |-> NoTask, tutor |-> NoTask,   \* the two tasks of the parallel plan
      response |-> NoneText, outcome |-> "", error |-> NoError,
      quota_seen |-> FALSE ]       \* history: a completion of this call hit the quota

\* the stores as one value, so that the statements of a step compose
World ==
    [ cache |-> cache, added |-> added, sessions |-> sessions, traces |-> traces,
      metrics |-> metrics, performance_data |-> performance_data ]

Result(w, call) == [world |-> w, call |-> call]

Step(kind, op, prefix, n, context) ==
    [kind |-> kind, op |-> op, prefix |-> prefix, n |-> n, context |-> context]

\* main.py:168-207: the except block; the lookup of line 190 is noted in the
\* call's steps
HandlerWith(w, call, e, kb_raised) ==
    LET duration == clock - call.start_time
        looked == IF e.quota
                  THEN Append(call.steps, Step("lookup", "retrieve", "", 0, NoneText))
                  ELSE call.steps
        w1 == [w EXCEPT
                 !.performance_data =
                     Append(@, PerfEntry("orchestrator", "route_query", duration, FALSE, clock)),
                 !.metrics = record_metric(@, "performance.orchestrator.route_query",
                                           duration, [success |-> FALSE], clock),
                 !.traces = end_trace(@, call.trace_id, "error", [error |-> e.text], clock)]
    IN Result(w1, [call EXCEPT !.pc = "done", !.outcome = "error", !.error = e,
                               !.steps = looked,
                               !.response = ErrorResponseWith(e, call.query, kb_raised)])

Handler(w, call, e) == HandlerWith(w, call, e, FALSE)

\* main.py:156-166: update session and memory, metrics, trace, return
Finish(w, call, response) ==
    LET s == call.student_id
        t == Len(w.added[s]) + 1
        w1 == [w EXCEPT !.sessions =
                 update_session(@, call.session_id, call.query, response, clock)]
        \* add_interaction raises on response[:200] after _load_memory
        w1r == [w1 EXCEPT !.cache = load_memory(@, s, disk_ok, t - 1).cache]
        duration == clock - call.start_time
        w2 == [w1 EXCEPT
                 !.cache = add_interaction(@, s, call.query, response, call.intent, disk_ok, t),
                 !.added = [@ EXCEPT ![s] =
                              Append(@, Interaction(call.query, response, call.intent, t))],
                 !.metrics = record_metric(
                                 record_metric(@, "query_routed", 1,
                                               [intent |-> call.intent], clock),
                                 "performance.orchestrator.route_query",
                                 duration, [success |-> TRUE], clock),
                 !.performance_data =
                     Append(@, PerfEntry("orchestrator", "route_query", duration, TRUE, clock)),
                 !.traces = end_trace(@, call.trace_id, "success", EmptyDict, clock)]
    IN IF IsNone(response)
       THEN Handler(w1r, call, NoneTypeError)
       ELSE Result(w2, [call EXCEPT !.pc = "done", !.outcome = "success",
                                    !.response = response])

\* TutorAgent.teach, lines 60-78: reads the student's context and builds the
\* prompt; raises when a profile list cannot be joined
TeachPrefix(w, call, prefix, context) ==
    LET s == call.student_id
        L == load_memory(w.cache, s, disk_ok, Len(w.added[s]))
    IN [ world |-> [w EXCEPT !.cache = L.cache],
         call |-> [call EXCEPT !.steps = Append(@, Step("invoke", "teach", prefix, 0, context))],
         raised |-> BadJoin(L.memory.profile.strengths) \/ BadJoin(L.memory.profile.gaps) ]

\* main.py:110-154: the plan of the intent, up to its first suspension
BeginPlan(w, call) ==
    LET s == call.student_id
        T == TeachPrefix(w, call, "", NoneText)
        Tips == TeachPrefix(w, [call EXCEPT !.steps =
                                  Append(@, Step("invoke", "generate_quiz", "", 5, NoneText))],
                            "Provide study tips for: ", NoneText)
        L == load_memory(w.cache, s, disk_ok, Len(w.added[s]))
        P == [call EXCEPT !.steps =
                Append(@, Step("invoke", "analyze_progress", "", 0, NoneText))]
    IN CASE call.intent = "explanation" ->
              Result(w, [call EXCEPT !.pc = "explain",
                                     !.steps = Append(@, Step("invoke", "explain", "", 0, NoneText))])
         [] call.intent = "practice" ->
              Result(Tips.world,
                     [Tips.call EXCEPT
                        !.pc = "gather",
                        !.quiz = [NoTask EXCEPT !.st = "running"],
                        !.tutor = IF Tips.raised
                                  THEN [NoTask EXCEPT !.st = "raised", !.err = JoinTypeError]
                                  ELSE [NoTask EXCEPT !.st = "running"]])
         [] call.intent = "progress" ->
              IF L.memory.interactions = <<>>
              THEN Finish([w EXCEPT !.cache = L.cache], P, GettingStarted)
              ELSE IF BadJoin(L.memory.profile.strengths) \/ BadJoin(L.memory.profile.gaps)
                   THEN Handler([w EXCEPT !.cache = L.cache], P, JoinTypeError)
                   ELSE Result([w EXCEPT !.cache = L.cache], [P EXCEPT !.pc = "progress"])
         [] call.intent = "homework" ->
              IF T.raised THEN Handler(T.world, T.call, JoinTypeError)
              ELSE Result(T.world, [T.call EXCEPT !.pc = "teach_then_quiz"])
         [] OTHER ->
              IF T.raised THEN Handler(T.world, T.call, JoinTypeError)
              ELSE Result(T.world, [T.call EXCEPT !.pc = "teach"])

\* an awaited agent operation of a solo or sequential plan returns, and
\* route_query runs on to its next suspension or to its return
Resume(w, call, o) ==
    LET q == call.query
        seen == [call EXCEPT !.quota_seen = @ \/ (o = "quota")]
        Ret(op, text) == [seen EXCEPT !.steps = Append(@, Step("return", op, "", 0, text))]
        explanation == ExplainResult(q, o)
        T2 == TeachPrefix(w, [Ret("explain", explanation) EXCEPT !.stage1 = explanation],
                          "", Prefix(explanation, ContextLen))
        guidance == TeachResult(o)
        practice == QuizResult(23, q, o)
    IN CASE call.pc = "explain" ->
              IF T2.raised THEN Handler(T2.world, T2.call, JoinTypeError)
              ELSE Result(T2.world, [T2.call EXCEPT !.pc = "teach"])
         [] call.pc = "teach" ->
              Finish(w, Ret("teach", TeachResult(o)), TeachResult(o))
         [] call.pc = "teach_then_quiz" ->
              Result(w, [Ret("teach", guidance) EXCEPT
                           !.stage1 = guidance,
                           !.pc = "quiz",
                           !.steps = Append(@, Step("invoke", "generate_quiz",
                                                    "Practice problems for: ", 3, NoneText))])
         [] call.pc = "quiz" ->
              Finish(w, Ret("generate_quiz", practice),
                     Concat(Concat(Str(call.stage1), Text("PRACTICE PROBLEMS header", 145)),
                            practice))
         [] OTHER ->   \* "progress"
              Finish(w, Ret("analyze_progress", ProgressResult(o)), ProgressResult(o))

\* main.py:130-133: a branch's value, or the diagnostic for its exception
BranchText(task, label, labelLen) ==
    IF task.st = "raised"
    THEN Concat(Text(label, labelLen), Text(task.err.text, task.err.len))
    ELSE Str(task.text)

\* the two parts in the order of gather's results: quiz first
Merge_QuizFirst(quiz, tutor) ==
    Concat(Concat(BranchText(quiz, "Quiz error: ", 12), Text("PRACTICE QUIZ header", 141)),
           BranchText(tutor, "Tutor error: ", 13))

\* main.py:133: the tutor's part, the quiz header, the quiz's part
Merge(quiz, tutor) ==
    Concat(Concat(BranchText(tutor, "Tutor error: ", 13), Text("PRACTICE QUIZ header", 141)),
           BranchText(quiz, "Quiz error: ", 12))


----------------------------------------------------------------------------
(* The Memory Store driven directly through its public operations *)

\* what one add_interaction call is given
InScience == [query |-> "explain photosynthesis", intent |-> "explanation",
              response |-> Text("tutor", 900)]
InMath == [query |-> "Solve this algebra equation", intent |-> "homework",
           response |-> Text("guidance+practice", 120)]
InHello == [query |-> "hello there", intent |-> "general",
            response |-> Text("tutor", 40)]

\* the input cycles of a run: the k-th call for a student is given the
\* k-th element of the cycle
Plans == { <<InScience, InMath>>, <<InHello, InMath, InScience>> }

Thresholds == {49, 50, 51, DefaultThreshold}
ProfileItems == {"algebra"}
GapLists == {<<"algebra", "algebra">>}
ProfileUpdates == { [key |-> "level", value |-> "advanced"],
                    [key |-> "nickname", value |-> "sam"] }

\* the log of a student as any reader gets it
Log(s) == IF s \in DOMAIN cache THEN cache[s].interactions ELSE <<>>
Summary(s) == IF s \in DOMAIN cache THEN cache[s].context_summary
              ELSE NewMemory(s, 0).context_summary
TopicsStudied(s) == IF s \in DOMAIN cache THEN cache[s].topics_studied ELSE EmptyDict

\* datetime.now() as a logical clock: the stamps of one student's record are
\* only compared with each other, and each add_interaction call for the student
\* is one tick
Now(s) == Len(added[s])

TotalAdds == Len(added["s1"]) + Len(added["s2"])

InitMem ==
    /\ cache = EmptyDict
    /\ disk_ok = TRUE
    /\ added = [s \in Students |-> <<>>]
    /\ plan \in Plans
    /\ profile_ops = 0
    /\ sessions = EmptyDict
    /\ student_sessions = EmptyDict
    /\ session_history = EmptyDict
    /\ created = 0
    /\ progress = EmptyDict
    /\ started = EmptyDict
    /\ pairs = EmptyDict
    /\ threads = [t \in ThreadIds |-> IdleThread]
    /\ observed = 0
    /\ traces = EmptyDict
    /\ metrics = EmptyDict
    /\ performance_data = <<>>
    /\ clock = 0
    /\ calls = [c \in CallIds |-> IdleCall]

MemAddInteraction(s) ==
    /\ TotalAdds < MaxAdds
    /\ \E o \in Students \ {s} :
          Min(Len(added[s]) + 1, Len(added[o])) <= MaxOtherAdds
    /\ LET in == plan[(Len(added[s]) % Len(plan)) + 1]
           stamp == Now(s) + 1
       IN /\ cache' = add_interaction(cache, s, in.query, in.response, in.intent,
                                      disk_ok, stamp)
          /\ added' = [added EXCEPT ![s] =
                         Append(@, Interaction(in.query, in.response, in.intent, stamp))]
    /\ UNCHANGED <<disk_ok, plan, profile_ops, sessVars, obsVars, clock, calls, sessHist, threadVars>>

MemGetStudentContext(s) ==
    /\ cache' = load_memory(cache, s, disk_ok, Now(s)).cache
    /\ UNCHANGED <<disk_ok, added, plan, profile_ops, sessVars, obsVars, clock, calls, sessHist, threadVars>>

MemGetInteractionHistory(s) ==
    /\ cache' = load_memory(cache, s, disk_ok, Now(s)).cache
    /\ UNCHANGED <<disk_ok, added, plan, profile_ops, sessVars, obsVars, clock, calls, sessHist, threadVars>>

MemUpdateStudentProfile(s) ==
    /\ profile_ops < MaxProfileOps
    /\ \E u \in ProfileUpdates :
          cache' = update_student_profile(cache, s, u.key, u.value, disk_ok, Now(s))
    /\ profile_ops' = profile_ops + 1
    /\ UNCHANGED <<disk_ok, added, plan, sessVars, obsVars, clock, calls, sessHist, threadVars>>

MemAddStrength(s) ==
    /\ profile_ops < MaxProfileOps
    /\ \E x \in ProfileItems : cache' = add_strength(cache, s, x, disk_ok, Now(s))
    /\ profile_ops' = profile_ops + 1
    /\ UNCHANGED <<disk_ok, added, plan, sessVars, obsVars, clock, calls, sessHist, threadVars>>

MemAddGap(s) ==
    /\ profile_ops < MaxProfileOps
    /\ \E x \in ProfileItems : cache' = add_gap(cache, s, x, disk_ok, Now(s))
    /\ profile_ops' = profile_ops + 1
    /\ UNCHANGED <<disk_ok, added, plan, sessVars, obsVars, clock, calls, sessHist, threadVars>>

MemUpdateStudentGaps(s) ==
    /\ profile_ops < MaxProfileOps
    /\ \E g \in GapLists : cache' = update_student_gaps(cache, s, g, disk_ok, Now(s))
    /\ profile_ops' = profile_ops + 1
    /\ UNCHANGED <<disk_ok, added, plan, sessVars, obsVars, clock, calls, sessHist, threadVars>>

CompactAt(s, t) ==
    /\ cache' = compact_old_memories(cache, s, t, disk_ok, Now(s))
    /\ UNCHANGED <<disk_ok, added, plan, profile_ops, sessVars, obsVars, clock, calls, sessHist, threadVars>>

MemCompact(s) == \E t \in Thresholds : CompactAt(s, t)

NextMem ==
    \E s \in Students :
        \/ MemAddInteraction(s)
        \/ MemGetStudentContext(s)
        \/ MemGetInteractionHistory(s)
        \/ MemUpdateStudentProfile(s)
        \/ MemAddStrength(s)
        \/ MemAddGap(s)
        \/ MemUpdateStudentGaps(s)
        \/ MemCompact(s)

SpecMem == InitMem /\ [][NextMem]_vars

\* the Memory Store on storage that may refuse writes (SpecDisk): open() or
\* json.dump in _save_memory raises while the fault lasts
DiskFails ==
    /\ disk_ok
    /\ disk_ok' = FALSE
    /\ UNCHANGED <<cache, added, plan, profile_ops, sessVars, obsVars, clock, calls, sessHist, threadVars>>

DiskRecovers ==
    /\ ~ disk_ok
    /\ disk_ok' = TRUE
    /\ UNCHANGED <<cache, added, plan, profile_ops, sessVars, obsVars, clock, calls, sessHist, threadVars>>

\* add_interaction, a few calls for each student
DiskAddInteraction(s) ==
    /\ Len(added[s]) < MaxDiskAdds
    /\ LET in == plan[(Len(added[s]) % Len(plan)) + 1]
           stamp == Now(s) + 1
       IN /\ cache' = add_interaction(cache, s, in.query, in.response, in.intent,
                                      disk_ok, stamp)
          /\ added' = [added EXCEPT ![s] =
                         Append(@, Interaction(in.query, in.response, in.intent, stamp))]
    /\ UNCHANGED <<disk_ok, plan, profile_ops, sessVars, obsVars, clock, calls, sessHist, threadVars>>

NextDisk ==
    \/ \E s \in Students :
          \/ DiskAddInteraction(s)
          \/ MemGetStudentContext(s)
          \/ MemGetInteractionHistory(s)
          \/ MemAddStrength(s)
    \/ DiskFails
    \/ DiskRecovers

SpecDisk == InitMem /\ [][NextDisk]_vars

----------------------------------------------------------------------------
(* The program: route_query calls, sessions, the clock *)

RouteQueries == {"explain photosynthesis"}
RouteStudents == {"s1"}

\* the callers in main.py await each operation before they issue the next
Quiet == \A c \in CallIds : calls[c].pc \in {"idle", "done"}

\* the classifier's completion: it raises, or replies with some words
IntentOutcomes ==
    {[raised |-> FALSE, words |-> w] : w \in IntentReplies}
        \cup {[raised |-> TRUE, words |-> <<>>]}

\* what identify_gaps parses from the model's JSON array
GapReplies == { <<"fractions">>, <<"{'topic': 'fractions'}">> }

\* MemoryBank.__init__ reads nothing: the storage directory holds what earlier
\* runs left. Either no record, or the record of a student with one
\* interaction.
PriorStudent == "s1"
PriorCache ==
    add_interaction(EmptyDict, PriorStudent, InScience.query, InScience.response,
                    InScience.intent, TRUE, 1)

Init ==
    /\ \E prior \in BOOLEAN :
         /\ cache = IF prior THEN PriorCache ELSE EmptyDict
         /\ added = [s \in Students |->
                       IF prior /\ s = PriorStudent
                       THEN <<Interaction(InScience.query, InScience.response,
                                          InScience.intent, 1)>>
                       ELSE <<>>]
    /\ disk_ok = TRUE
    /\ plan = <<InScience, InMath>>
    /\ profile_ops = 0
    /\ sessions = EmptyDict
    /\ student_sessions = EmptyDict
    /\ session_history = EmptyDict
    /\ created = 0
    /\ progress = EmptyDict
    /\ started = EmptyDict
    /\ pairs = EmptyDict
    /\ threads = [t \in ThreadIds |-> IdleThread]
    /\ observed = 0
    /\ traces = EmptyDict
    /\ metrics = EmptyDict
    /\ performance_data = <<>>
    /\ clock = 0
    /\ calls = [c \in CallIds |-> IdleCall]

Apply(r, c) ==
    /\ cache' = r.world.cache
    /\ added' = r.world.added
    /\ sessions' = r.world.sessions
    /\ traces' = r.world.traces
    /\ metrics' = r.world.metrics
    /\ performance_data' = r.world.performance_data
    /\ calls' = [calls EXCEPT ![c] = r.call]
    /\ UNCHANGED <<disk_ok, plan, profile_ops, student_sessions, session_history,
                   created, progress, clock, sessHist, threadVars>>

\* main.py:91-105: the call starts its trace, reads the student's context and
\* awaits the classifier
RouteStartWith(c, queries) ==
    /\ calls[c].pc = "idle"
    /\ IF c = 1 THEN TRUE ELSE calls[c - 1].pc = "done"
    /\ \E q \in queries, s \in RouteStudents, sid \in SessionIds :
         LET tid == TraceId(s, clock)
             w == [World EXCEPT
                     !.traces = start_trace(@, tid, "route_query", [student_id |-> s], clock),
                     !.cache = load_memory(@, s, disk_ok, Now(s)).cache]
         IN Apply(Result(w, [IdleCall EXCEPT !.pc = "intent", !.query = q,
                                             !.before = Snapshot(cache, sessions, s, sid),
                                             !.student_id = s, !.session_id = sid,
                                             !.trace_id = tid, !.start_time = clock]), c)

RouteStart(c) == RouteStartWith(c, RouteQueries)

\* main.py:105-154: the classifier answers; the intent is traced and the plan begins
IntentReturns(c, r) ==
    /\ calls[c].pc = "intent"
    /\ LET intent == determine_intent(r.raised, r.words)
           call == [calls[c] EXCEPT
                      !.intent = intent,
                      !.classifier = IF r.raised THEN "raised"
                                     ELSE IF \A i \in 1..Len(r.words) : Lower(r.words[i]) \notin Intents
                                          THEN "no_token" ELSE "token"]
           w == [World EXCEPT !.traces =
                   add_trace_event(@, call.trace_id, "intent_determined",
                                   [intent |-> intent], clock)]
       IN Apply(BeginPlan(w, call), c)

RouteIntent(c) == \E r \in IntentOutcomes : IntentReturns(c, r)

OutcomesAt(pc) ==
    CASE pc = "explain"  -> ExplainOutcomes
      [] pc = "quiz"     -> QuizOutcomes
      [] pc = "progress" -> ProgressOutcomes
      [] OTHER           -> TeachOutcomes

\* the awaited agent operation of a solo or sequential plan returns
AgentReturn(c) ==
    /\ calls[c].pc \in {"explain", "teach", "teach_then_quiz", "quiz", "progress"}
    /\ \E o \in OutcomesAt(calls[c].pc) : Apply(Resume(World, calls[c], o), c)

\* main.py:120-128: one of the two tasks of the parallel plan finishes
QuizTaskReturn(c) ==
    /\ calls[c].pc = "gather"
    /\ calls[c].quiz.st = "running"
    /\ \E o \in QuizOutcomes :
         LET text == QuizResult(0, calls[c].query, o)
         IN Apply(Result(World,
                [calls[c] EXCEPT
                   !.quiz = [NoTask EXCEPT !.st = "value", !.text = text],
                   !.quota_seen = @ \/ (o = "quota")]), c)

TutorTaskReturn(c) ==
    /\ calls[c].pc = "gather"
    /\ calls[c].tutor.st = "running"
    /\ \E o \in TeachOutcomes :
         LET text == TeachResult(o)
         IN Apply(Result(World,
                [calls[c] EXCEPT
                   !.tutor = [NoTask EXCEPT !.st = "value", !.text = text],
                   !.quota_seen = @ \/ (o = "quota")]), c)

\* main.py:128-166: gather returns once both tasks are done
RouteJoin(c) ==
    /\ calls[c].pc = "gather"
    /\ calls[c].quiz.st # "running"
    /\ calls[c].tutor.st # "running"
    /\ Apply(Finish(World, calls[c], Merge(calls[c].quiz, calls[c].tutor)), c)

\* ProgressStorageTool.increment_session_count, lines 257-261, with
\* _init_progress; of the progress dict only total_sessions is kept
increment_session_count(pr, s) ==
    LET old == IF s \in DOMAIN pr THEN pr[s] ELSE [total_sessions |-> 0]
    IN DictSet(pr, s, [old EXCEPT !.total_sessions = @ + 1])

SessionsStarted(s) == IF s \in DOMAIN progress THEN progress[s].total_sessions ELSE 0

\* start_learning_session, main.py:272-285: get the current session or create
\* one, count the session in the progress store, read the student's context
StartLearningSession(s) ==
    /\ Quiet
    /\ SessionsStarted(s) < MaxSessionStarts
    /\ progress' = increment_session_count(progress, s)
    /\ s \in DOMAIN student_sessions \/ created < Len(SessionIdPool)
    /\ IF s \in DOMAIN student_sessions
       THEN UNCHANGED <<sessions, student_sessions, created>>
       ELSE LET id == SessionIdPool[created + 1]
            IN /\ sessions' = DictSet(sessions, id, NewSession(id, s, clock))
               /\ student_sessions' = DictSet(student_sessions, s, id)
               /\ created' = created + 1
    /\ cache' = load_memory(cache, s, disk_ok, Now(s)).cache
    /\ UNCHANGED <<disk_ok, added, plan, profile_ops, session_history, obsVars, clock, calls, sessHist, threadVars>>

\* end_session
EndSession(id) ==
    /\ Quiet
    /\ UNCHANGED progress
    /\ IF id \notin DOMAIN sessions
       THEN UNCHANGED <<sessions, student_sessions, session_history>>
       ELSE LET s == sessions[id].student_id
            IN /\ session_history' =
                    DictSet(session_history, s,
                            Append(HistoryOf(session_history, s),
                                   DictSet(sessions[id], "ended_at", clock)))
               /\ sessions' = DictDel(sessions, id)
               /\ student_sessions' =
                    IF s \in DOMAIN student_sessions /\ student_sessions[s] = id
                    THEN DictDel(student_sessions, s)
                    ELSE student_sessions
    /\ UNCHANGED <<memVars, created, obsVars, clock, calls, sessHist, threadVars>>

\* ProgressTrackerAgent.identify_gaps, lines 162-202: the parsed JSON array
\* replaces the student's gaps
IdentifyGaps(s) ==
    /\ Quiet
    /\ Log(s) # <<>>
    /\ \E g \in GapReplies : cache' = update_student_gaps(cache, s, g, disk_ok, Now(s))
    /\ UNCHANGED <<disk_ok, added, plan, profile_ops, sessVars, obsVars, clock, calls, sessHist, threadVars>>

\* a second passes, between two operations
Tick ==
    /\ Quiet
    /\ clock < MaxTime
    /\ clock' = clock + 1
    /\ UNCHANGED <<memVars, sessVars, obsVars, calls, sessHist, threadVars>>

Next ==
    \/ \E c \in CallIds :
          \/ RouteStart(c)
          \/ RouteIntent(c)
          \/ AgentReturn(c)
          \/ QuizTaskReturn(c)
          \/ TutorTaskReturn(c)
          \/ RouteJoin(c)
    \/ \E s \in RouteStudents : StartLearningSession(s) \/ IdentifyGaps(s)
    \/ \E id \in SessionIds : EndSession(id)
    \/ Tick

Spec == Init /\ [][Next]_vars

\* The same program with the scheduling the event loop gives (SpecLive): once
\* both tasks of the parallel plan are done, gather returns and route_query
\* runs on.  An answer of the completion service is awaited through
\* asyncio.to_thread with no timeout (tutor_agent.py:81-90, genai_utils.py:
\* 108-113; request_timeout of agent_config.py is read nowhere), so nothing
\* obliges the steps in which the service answers to happen.
SpecLive == Init /\ [][Next]_vars /\ \A c \in CallIds : WF_vars(RouteJoin(c))


----------------------------------------------------------------------------
(* A burst of requests (SpecBurst): route_query calls of one student, each *)
(* awaited before the next is issued, quick enough to start within one     *)
(* clock second.                                                           *)

BurstIds == 1..MaxBurst

InitBurst ==
    /\ cache = EmptyDict
    /\ disk_ok = TRUE
    /\ added = [s \in Students |-> <<>>]
    /\ plan = <<InScience, InMath>>
    /\ profile_ops = 0
    /\ sessions = EmptyDict
    /\ student_sessions = EmptyDict
    /\ session_history = EmptyDict
    /\ created = 0
    /\ progress = EmptyDict
    /\ started = EmptyDict
    /\ pairs = EmptyDict
    /\ threads = [t \in ThreadIds |-> IdleThread]
    /\ observed = 0
    /\ traces = EmptyDict
    /\ metrics = EmptyDict
    /\ performance_data = <<>>
    /\ clock = 0
    /\ calls = [c \in BurstIds |-> IdleCall]

NextBurst ==
    \/ \E c \in BurstIds :
          \/ RouteStart(c)
          \/ RouteIntent(c)
          \/ AgentReturn(c)
          \/ QuizTaskReturn(c)
          \/ TutorTaskReturn(c)
          \/ RouteJoin(c)
    \/ Tick

SpecBurst == InitBurst /\ [][NextBurst]_vars

----------------------------------------------------------------------------
(* The except block of route_query on its inputs (SpecErr): an exception   *)
(* surfaces from the awaited step of the plan, for a query the knowledge   *)
(* base has a fact for or one it has none for.                             *)

ErrQueries == {"explain photosynthesis", "hello there"}

\* str(e) of the exceptions: quota errors whose text carries no delay, a delay
\* of 0 s, of 0.5 s and of 30 s, and errors that are no quota errors
QuotaNoDelay == Exc("429 RESOURCE_EXHAUSTED", 22, TRUE, -1)
QuotaZeroDelay == Exc("429 RESOURCE_EXHAUSTED ... Please retry in 0s", 45, TRUE, 0)
QuotaHalfSecond == Exc("429 RESOURCE_EXHAUSTED ... Please retry in 0.5s", 47, TRUE, 5)
SurfacedErrors ==
    {QuotaError, QuotaNoDelay, QuotaZeroDelay, QuotaHalfSecond, ServiceError, JoinTypeError}

ErrStart(c) == RouteStartWith(c, ErrQueries)

\* the awaited step raises into route_query's try block
PlanRaises(c) ==
    /\ calls[c].pc \in {"explain", "teach", "teach_then_quiz", "quiz", "progress"}
    /\ \E e \in SurfacedErrors, kb_raised \in BOOLEAN :
          Apply(HandlerWith(World, calls[c], e, kb_raised), c)

NextErr ==
    \/ \E c \in CallIds :
          \/ ErrStart(c)
          \/ RouteIntent(c)
          \/ AgentReturn(c)
          \/ PlanRaises(c)
          \/ QuizTaskReturn(c)
          \/ TutorTaskReturn(c)
          \/ RouteJoin(c)
    \/ Tick

SpecErr == InitBurst /\ [][NextErr]_vars

----------------------------------------------------------------------------
(* The Session Store, driven through its public operations (SpecSess).     *)
(* Any caller holding the SessionManager may call any of them, in any      *)
(* order; start_learning_session is the orchestrator's get-or-create.      *)

\* str(uuid.uuid4()): the ids drawn in a Session Store run, in the order they
\* are drawn; the last one is never drawn
SessPool == <<"sess1", "sess2", "sess3", "sess4">>
SessIds == {SessPool[i] : i \in 1..Len(SessPool)}

\* the store keeps one student's entries apart from another's (every map is
\* keyed by student or by session id), so one student drives it
SessStudents == {"s1"}
StateKeys == {"topic"}
StateValues == {"science"}
MaxAges == {0, 1}

PairsOf(id) == IF id \in DOMAIN pairs THEN pairs[id] ELSE <<>>

\* the students whose session is among ids
StudentsOf(ss, ids) == {ss[id].student_id : id \in ids \cap DOMAIN ss}

\* started, once sessions of the students gone have been ended or swept
Forget(gone) == [s \in (DOMAIN started) \ gone |-> started[s]]

InitSess ==
    /\ cache = EmptyDict
    /\ disk_ok = TRUE
    /\ added = [s \in Students |-> <<>>]
    /\ plan = <<InScience, InMath>>
    /\ profile_ops = 0
    /\ sessions = EmptyDict
    /\ student_sessions = EmptyDict
    /\ session_history = EmptyDict
    /\ created = 0
    /\ progress = EmptyDict
    /\ started = EmptyDict
    /\ pairs = EmptyDict
    /\ threads = [t \in ThreadIds |-> IdleThread]
    /\ observed = 0
    /\ traces = EmptyDict
    /\ metrics = EmptyDict
    /\ performance_data = <<>>
    /\ clock = 0
    /\ calls = [c \in CallIds |-> IdleCall]

RECURSIVE SumOver(_, _)
SumOver(f, keys) ==
    IF keys = {} THEN 0
    ELSE LET k == CHOOSE x \in keys : TRUE IN f[k] + SumOver(f, keys \ {k})

\* start_learning_session calls so far, as the progress store counts them
TotalStarts == SumOver([s \in DOMAIN progress |-> progress[s].total_sessions], DOMAIN progress)
\* update_session calls so far that found their session
TotalPairs == SumOver([id \in DOMAIN pairs |-> Len(pairs[id])], DOMAIN pairs)

SetStore(st) ==
    /\ sessions' = st.sessions
    /\ student_sessions' = st.student_sessions
    /\ session_history' = st.session_history

\* create_session(student_id)
SessCreateWithin(s, max_sessions) ==
    /\ created < max_sessions
    /\ SetStore(create_session(SessionStore, SessPool[created + 1], s, clock))
    /\ created' = created + 1
    /\ UNCHANGED <<memVars, progress, started, pairs, obsVars, clock, calls, threadVars>>

SessCreate(s) == SessCreateWithin(s, MaxSessions)

\* start_learning_session(student_id), main.py:272-285
SessStart(s) ==
    /\ TotalStarts < MaxStarts
    /\ LET current == get_current_session(SessionStore, s)
       IN IF current # None
          THEN /\ UNCHANGED <<sessions, student_sessions, session_history, created>>
               /\ started' = DictSet(started, s, current)
          ELSE /\ created < MaxSessions
               /\ LET id == SessPool[created + 1]
                  IN /\ SetStore(create_session(SessionStore, id, s, clock))
                     /\ started' = DictSet(started, s, id)
               /\ created' = created + 1
    /\ progress' = increment_session_count(progress, s)
    /\ cache' = load_memory(cache, s, disk_ok, Now(s)).cache
    /\ UNCHANGED <<disk_ok, added, plan, profile_ops, pairs, obsVars, clock, calls, threadVars>>

\* update_session(session_id, user_message, agent_response): the caller's
\* messages are numbered, so that no two pairs of a session are equal
SessUpdateWithin(id, within) ==
    /\ within
    /\ LET user_message == <<"message", Len(PairsOf(id)) + 1>>
           agent_response == <<"reply", Len(PairsOf(id)) + 1>>
       IN /\ sessions' = update_session(sessions, id, user_message, agent_response, clock)
          /\ pairs' =
                IF id \in DOMAIN sessions
                THEN DictSet(pairs, id,
                             Append(PairsOf(id), [timestamp |-> clock,
                                                  user |-> user_message,
                                                  agent |-> agent_response]))
                ELSE pairs
    /\ UNCHANGED <<memVars, student_sessions, session_history, created, progress,
                   started, obsVars, clock, calls, threadVars>>

SessUpdate(id) == SessUpdateWithin(id, TotalPairs < MaxPairs)

\* set_session_state(session_id, key, value)
SessSetState(id) ==
    /\ \E key \in StateKeys, value \in StateValues :
          SetStore(set_session_state(SessionStore, id, key, value).store)
    /\ UNCHANGED <<memVars, created, progress, started, pairs, obsVars, clock, calls, threadVars>>

\* end_session(session_id)
SessEnd(id) ==
    /\ SetStore(end_session(SessionStore, id, clock).store)
    /\ started' = Forget(StudentsOf(sessions, {id}))
    /\ UNCHANGED <<memVars, created, progress, pairs, obsVars, clock, calls, threadVars>>

\* cleanup_inactive_sessions(max_age_hours)
SessCleanup(max_age_hours) ==
    /\ LET r == cleanup_inactive_sessions(SessionStore, SessPool, max_age_hours, clock)
       IN /\ SetStore(r.store)
          /\ started' = Forget(StudentsOf(sessions, (DOMAIN sessions) \ DOMAIN r.store.sessions))
    /\ UNCHANGED <<memVars, created, progress, pairs, obsVars, clock, calls, threadVars>>

\* an hour passes, between two operations
HourPasses ==
    /\ clock < MaxHours * SecondsPerHour
    /\ clock' = clock + SecondsPerHour
    /\ UNCHANGED <<memVars, sessVars, sessHist, threadVars, obsVars, calls>>

NextSess ==
    \/ \E s \in SessStudents : SessCreate(s) \/ SessStart(s)
    \/ \E id \in SessIds :
          \/ SessUpdate(id)
          \/ SessSetState(id)
          \/ SessEnd(id)
    \/ \E max_age_hours \in MaxAges : SessCleanup(max_age_hours)
    \/ HourPasses

SpecSess == InitSess /\ [][NextSess]_vars

\* the same store in a long conversation (SpecSessCap): the first session
\* takes more pairs than the cap allows it to keep
SessUpdateLong(id) ==
    SessUpdateWithin(id, Len(PairsOf(id)) <
                           (IF id = SessPool[1] THEN MaxCapPairs ELSE MaxOtherPairs))

NextSessCap ==
    \/ \E s \in SessStudents : SessCreate(s)
    \/ \E id \in SessIds :
          \/ SessUpdateLong(id)
          \/ SessSetState(id)
          \/ SessEnd(id)

SpecSessCap == InitSess /\ [][NextSessCap]_vars

\* the store shared by two students (SpecOwn): sessions are created, ended
\* and swept for either of them
OwnCreate(s) == SessCreateWithin(s, MaxOwnSessions)

NextOwn ==
    \/ \E s \in Students : OwnCreate(s)
    \/ \E id \in SessIds : SessEnd(id)
    \/ \E max_age_hours \in MaxAges : SessCleanup(max_age_hours)
    \/ HourPasses

SpecOwn == InitSess /\ [][NextOwn]_vars

----------------------------------------------------------------------------
(* The Observability Sink's traces, driven through start_trace,            *)
(* add_trace_event and end_trace (SpecObs).                                *)

ObsTraceIds == {"t1", "t2"}
ObsStatuses == {"success", "error"}

InitObs == InitSess

ObsStartTrace(id) ==
    /\ traces' = start_trace(traces, id, "route_query", EmptyDict, clock)
    /\ UNCHANGED <<memVars, sessVars, sessHist, threadVars, metrics, performance_data, clock, calls>>

ObsAddTraceEvent(id) ==
    /\ IF id \in DOMAIN traces THEN Len(traces[id].events) < MaxEvents ELSE TRUE
    /\ traces' = add_trace_event(traces, id, "step", EmptyDict, clock)
    /\ UNCHANGED <<memVars, sessVars, sessHist, threadVars, metrics, performance_data, clock, calls>>

ObsEndTrace(id) ==
    /\ \E status \in ObsStatuses :
          traces' = end_trace(traces, id, status,
                              IF status = "error" THEN [error |-> "boom"] ELSE EmptyDict,
                              clock)
    /\ UNCHANGED <<memVars, sessVars, sessHist, threadVars, metrics, performance_data, clock, calls>>

NextObs ==
    \/ \E id \in ObsTraceIds :
          \/ ObsStartTrace(id)
          \/ ObsAddTraceEvent(id)
          \/ ObsEndTrace(id)
    \/ Tick

SpecObs == InitObs /\ [][NextObs]_vars

----------------------------------------------------------------------------
(* add_interaction on worker threads (SpecThreads).  gui.py starts a       *)
(* thread with its own event loop for every message sent, so route_query   *)
(* calls of one student, and with them add_interaction, can overlap.  The  *)
(* student is cached: every thread works on the one dict the cache holds.  *)
(* A thread may be suspended between any two statements, and between the   *)
(* evaluation of memory["interactions"][-50:] and its assignment.          *)

\* the lengths of the student's log when the threads start
PriorLens == {1, HistoryCap}

\* the log after n add_interaction calls made one at a time
SeedEntries(n) ==
    [i \in 1..n |-> Interaction(InScience.query, InScience.response, InScience.intent, i)]

\* what those calls leave in the cache: no entry is dropped while the log is
\* within the cap
SeedCache(n) ==
    LET counts == IF n = 0 THEN EmptyDict
                  ELSE DictSet(EmptyDict, extract_topic(InScience.query),
                               [first_seen |-> 1, count |-> n, last_seen |-> n])
    IN DictSet(EmptyDict, PriorStudent,
               [NewMemory(PriorStudent, 1) EXCEPT !.interactions = SeedEntries(n),
                                                  !.topics_studied = counts])

InitThreads ==
    /\ \E n \in PriorLens :
          /\ cache = SeedCache(n)
          /\ added = [s \in Students |-> IF s = PriorStudent THEN SeedEntries(n) ELSE <<>>]
    /\ disk_ok = TRUE
    /\ plan = <<InScience, InMath>>
    /\ profile_ops = 0
    /\ sessions = EmptyDict
    /\ student_sessions = EmptyDict
    /\ session_history = EmptyDict
    /\ created = 0
    /\ progress = EmptyDict
    /\ started = EmptyDict
    /\ pairs = EmptyDict
    /\ threads = [t \in ThreadIds |-> IdleThread]
    /\ observed = 0
    /\ traces = EmptyDict
    /\ metrics = EmptyDict
    /\ performance_data = <<>>
    /\ clock = 0
    /\ calls = [c \in CallIds |-> IdleCall]

\* the cached dict of the student the threads write to
Shared == cache[PriorStudent]

ThreadFrame ==
    UNCHANGED <<disk_ok, plan, profile_ops, sessVars, sessHist, obsVars, clock, calls>>

\* memory_bank.py:115-123: the cached dict is loaded and the entry is built
ThreadBuild(t) ==
    /\ threads[t].pc = "idle"
    /\ LET e == Interaction(InScience.query, InScience.response, InScience.intent,
                            Len(added[PriorStudent]) + 1)
       IN /\ threads' = [threads EXCEPT ![t].pc = "built", ![t].interaction = e]
          /\ added' = [added EXCEPT ![PriorStudent] = Append(@, e)]
    /\ UNCHANGED <<cache, observed>>
    /\ ThreadFrame

\* memory_bank.py:125: append to the list the dict holds
ThreadAppend(t) ==
    /\ threads[t].pc = "built"
    /\ cache' = [cache EXCEPT ![PriorStudent].interactions =
                    Append(@, threads[t].interaction)]
    /\ threads' = [threads EXCEPT ![t].pc = "appended"]
    /\ UNCHANGED <<added, observed>>
    /\ ThreadFrame

\* memory_bank.py:128-129: the test and the right-hand side of the trim
ThreadSlice(t) ==
    /\ threads[t].pc = "appended"
    /\ threads' = IF Len(Shared.interactions) > HistoryCap
                  THEN [threads EXCEPT ![t].pc = "sliced",
                                       ![t].trimmed = LastN(Shared.interactions, HistoryCap)]
                  ELSE [threads EXCEPT ![t].pc = "trimmed"]
    /\ UNCHANGED <<cache, added, observed>>
    /\ ThreadFrame

\* memory_bank.py:129: the new list replaces the one the dict holds
ThreadAssign(t) ==
    /\ threads[t].pc = "sliced"
    /\ cache' = [cache EXCEPT ![PriorStudent].interactions = threads[t].trimmed]
    /\ threads' = [threads EXCEPT ![t].pc = "trimmed"]
    /\ UNCHANGED <<added, observed>>
    /\ ThreadFrame

\* memory_bank.py:131-142: the topic is counted and the dict is saved
ThreadCountAndSave(t) ==
    /\ threads[t].pc = "trimmed"
    /\ cache' = save_memory(cache, PriorStudent,
                            [Shared EXCEPT !.topics_studied =
                               CountTopic(@, threads[t].interaction.topic,
                                          threads[t].interaction.timestamp)],
                            disk_ok)
    /\ threads' = [threads EXCEPT ![t].pc = "done"]
    /\ UNCHANGED <<added, observed>>
    /\ ThreadFrame

\* another thread calls get_student_context and reads total_interactions
ThreadReads ==
    /\ observed' = get_student_context(cache, PriorStudent, disk_ok,
                                       Len(added[PriorStudent])).total_interactions
    /\ UNCHANGED <<cache, added, threads>>
    /\ ThreadFrame

NextThreads ==
    \/ \E t \in ThreadIds :
          \/ ThreadBuild(t)
          \/ ThreadAppend(t)
          \/ ThreadSlice(t)
          \/ ThreadAssign(t)
          \/ ThreadCountAndSave(t)
    \/ ThreadReads

SpecThreads == InitThreads /\ [][NextThreads]_vars

----------------------------------------------------------------------------
(* The profile operations of the Memory Store, several in a row            *)
(* (SpecProfile).                                                          *)

ProfItems == {"algebra", "fractions"}

\* one profile operation: c2 is the cache it leaves
ProfileStep(c2) ==
    /\ profile_ops < MaxProfileCalls
    /\ cache' = c2
    /\ profile_ops' = profile_ops + 1
    /\ UNCHANGED <<disk_ok, added, plan, sessVars, obsVars, clock, calls, sessHist, threadVars>>

ProfAddStrength(s, x) == ProfileStep(add_strength(cache, s, x, disk_ok, Now(s)))

ProfAddGap(s, x) == ProfileStep(add_gap(cache, s, x, disk_ok, Now(s)))

ProfUpdateStudentGaps(s) ==
    \E g \in GapLists : ProfileStep(update_student_gaps(cache, s, g, disk_ok, Now(s)))

ProfUpdateStudentProfile(s) ==
    \E u \in ProfileUpdates :
        ProfileStep(update_student_profile(cache, s, u.key, u.value, disk_ok, Now(s)))

NextProfile ==
    \E s \in Students :
        \/ \E x \in ProfItems : ProfAddStrength(s, x) \/ ProfAddGap(s, x)
        \/ ProfUpdateStudentGaps(s)
        \/ ProfUpdateStudentProfile(s)
        \/ MemGetStudentContext(s)

SpecProfile == InitMem /\ [][NextProfile]_vars

----------------------------------------------------------------------------
(* Compaction of stored records (SpecCompact).  _load_memory takes the      *)
(* record of a student from memory_<id>.json when the cache does not hold  *)
(* it, whatever the file holds: compact_old_memories is written for logs   *)
(* longer than the 50 entries add_interaction keeps.                       *)

\* the lengths of the log in the stored record
StoredLens == {0, 1, HistoryCap} \cup (HistoryCap + 1 .. HistoryCap + MaxExcess)

\* a log of n entries made from the input cycle p
StoredEntries(p, n) ==
    [i \in 1..n |-> LET in == p[((i - 1) % Len(p)) + 1]
                    IN Interaction(in.query, in.response, in.intent, i)]

\* topics_studied as add_interaction counted it while the log was written
StoredTopics(entries) ==
    LET At(t) == {i \in 1..Len(entries) : entries[i].topic = t}
        seen == {entries[i].topic : i \in 1..Len(entries)} \ {None}
    IN [t \in seen |->
          [ first_seen |-> CHOOSE i \in At(t) : \A j \in At(t) : i <= j,
            count |-> Cardinality(At(t)),
            last_seen |-> CHOOSE i \in At(t) : \A j \in At(t) : i >= j ]]

\* the cache once the stored record was loaded (json.load, lines 46-51)
StoredCache(p, n) ==
    DictSet(EmptyDict, PriorStudent,
            [NewMemory(PriorStudent, 1) EXCEPT
                !.interactions = StoredEntries(p, n),
                !.topics_studied = StoredTopics(StoredEntries(p, n))])

InitCompact ==
    /\ plan \in Plans
    /\ \E n \in StoredLens :
          /\ cache = StoredCache(plan, n)
          /\ added = [s \in Students |->
                        IF s = PriorStudent THEN StoredEntries(plan, n) ELSE <<>>]
    /\ disk_ok = TRUE
    /\ profile_ops = 0
    /\ sessions = EmptyDict
    /\ student_sessions = EmptyDict
    /\ session_history = EmptyDict
    /\ created = 0
    /\ progress = EmptyDict
    /\ started = EmptyDict
    /\ pairs = EmptyDict
    /\ threads = [t \in ThreadIds |-> IdleThread]
    /\ observed = 0
    /\ traces = EmptyDict
    /\ metrics = EmptyDict
    /\ performance_data = <<>>
    /\ clock = 0
    /\ calls = [c \in CallIds |-> IdleCall]

\* add_interaction, a few calls after the record was loaded
CompactAddInteraction(s) ==
    /\ Len(added[s]) < HistoryCap + MaxExcess + MaxCompactAdds
    /\ LET in == plan[(Len(added[s]) % Len(plan)) + 1]
           stamp == Now(s) + 1
       IN /\ cache' = add_interaction(cache, s, in.query, in.response, in.intent,
                                      disk_ok, stamp)
          /\ added' = [added EXCEPT ![s] =
                         Append(@, Interaction(in.query, in.response, in.intent, stamp))]
    /\ UNCHANGED <<disk_ok, plan, profile_ops, sessVars, obsVars, clock, calls, sessHist, threadVars>>

NextCompact ==
    \/ CompactAddInteraction(PriorStudent)
    \/ \E s \in Students :
          \/ MemGetStudentContext(s)
          \/ MemGetInteractionHistory(s)
          \/ MemCompact(s)

SpecCompact == InitCompact /\ [][NextCompact]_vars

----------------------------------------------------------------------------
(* Claims *)

\* the step in which call c returns to its caller
Completes(c) == calls[c].pc # "done" /\ calls'[c].pc = "done"

\* the agent operations a call has invoked so far, in order
InvokedOps(call) ==
    LET Inv(i) == call.steps[i].kind = "invoke"
        F[i \in 0..Len(call.steps)] ==
            IF i = 0 THEN <<>>
            ELSE IF Inv(i) THEN Append(F[i - 1], call.steps[i]) ELSE F[i - 1]
    IN F[Len(call.steps)]

\* C1: every route_query call that completes on its success path has appended
\* exactly one entry, carrying the resolved intent and the inferred topic, to
\* the student's interactions and exactly one message pair to the session
\* named by session_id, whatever session_id was passed (never created and
\* ended ones included).
C1_SuccessAppendsEntryAndPair ==
    [][\A c \in CallIds :
         (Completes(c) /\ calls'[c].outcome = "success") =>
            LET call == calls'[c]
                b == call.before
                after == Snapshot(cache', sessions', call.student_id, call.session_id)
                n == Len(b.interactions)
            IN /\ Len(after.interactions) = n + 1
               /\ SubSeq(after.interactions, 1, n) = b.interactions
               /\ after.interactions[n + 1].intent = call.intent
               /\ after.interactions[n + 1].topic = extract_topic(call.query)
               /\ Len(after.session) = 1
               /\ Len(after.session[1].messages) =
                     (IF b.session = <<>> THEN 0 ELSE Len(b.session[1].messages)) + 1
               /\ \A o \in Students \ {call.student_id} :
                     (o \in DOMAIN cache') = (o \in DOMAIN cache)
      ]_vars

\* C2: a route_query call that ends on its failure path leaves the student's
\* interactions and topics_studied and the session (messages, last_activity)
\* exactly as they were before the call, whatever step raised.
C2_FailureChangesNothing ==
    [][\A c \in CallIds :
         (Completes(c) /\ calls'[c].outcome = "error") =>
            LET call == calls'[c]
                after == Snapshot(cache', sessions', call.student_id, call.session_id)
            IN after = call.before
      ]_vars

\* C3: when a completion of the call failed with a quota-exhaustion error and
\* the knowledge base holds a fact for the query, the call returns the
\* fallback text (disclaimer and facts) and its trace ends with status error.
C3_QuotaYieldsFallback ==
    \A c \in CallIds :
        LET call == calls[c]
        IN (call.pc = "done" /\ call.quota_seen /\ KBFactCount(call.query) > 0) =>
              /\ call.response = ErrorResponse(QuotaError, call.query)
              /\ call.trace_id \in DOMAIN traces
              /\ traces[call.trace_id].status = "error"

\* C4: in the practice plan, when one branch raised and the other did not,
\* the call waits for both, returns on its success path, and its response is
\* the tutor's part, the quiz header, the quiz's part, with "Tutor error: ..."
\* or "Quiz error: ..." in the place of the branch that raised; the other
\* branch is invoked and runs to its end.
C4_FailedBranchInline ==
    \A c \in CallIds :
        LET call == calls[c]
            Diag(label, task) == <<label, task.err.text>>
            raisedT == call.tutor.st = "raised"
            raisedQ == call.quiz.st = "raised"
        IN (call.intent = "practice" /\ call.pc \in {"gather", "done"}
              /\ raisedT # raisedQ) =>
             /\ {call.steps[i].op : i \in 1..Len(call.steps)} = {"generate_quiz", "teach"}
             /\ (IF raisedT THEN call.quiz.st ELSE call.tutor.st) \in {"running", "value"}
             /\ call.pc = "done" =>
                  /\ call.quiz.st # "running" /\ call.tutor.st # "running"
                  /\ call.outcome = "success"
                  /\ call.response.parts =
                        (IF raisedT THEN Diag("Tutor error: ", call.tutor)
                                    ELSE Str(call.tutor.text).parts)
                        \o <<"PRACTICE QUIZ header">>
                        \o (IF raisedQ THEN Diag("Quiz error: ", call.quiz)
                                       ELSE Str(call.quiz.text).parts)

C4_Witness ==
    \E c \in CallIds :
        /\ calls[c].pc = "done"
        /\ calls[c].intent = "practice"
        /\ calls[c].tutor.st = "raised"
        /\ calls[c].quiz.st = "value"
        /\ calls[c].outcome = "success"

\* C5: in the sequential plans (explanation, homework) stage 2 is invoked
\* after stage 1 has returned, is invoked in every call, and is given stage
\* 1's output as its context.
C5_Stage2GetsStage1Output ==
    \A c \in CallIds :
        LET call == calls[c]
            st == call.steps
            stage1 == IF call.intent = "explanation" THEN "explain" ELSE "teach"
            stage2 == IF call.intent = "explanation" THEN "teach" ELSE "generate_quiz"
        IN (call.pc = "done" /\ call.intent \in {"explanation", "homework"}) =>
              /\ Len(st) >= 3
              /\ st[1].kind = "invoke" /\ st[1].op = stage1
              /\ st[2].kind = "return" /\ st[2].op = stage1
              /\ st[3].kind = "invoke" /\ st[3].op = stage2
              /\ st[3].context \in {st[2].context, Prefix(st[2].context, ContextLen)}

\* C6: for every resolved intent a call that has returned invoked exactly the
\* operations of the intent's plan: explanation, explain then teach with the
\* first 500 characters of the explanation; practice, generate_quiz with 5
\* questions and teach; homework, teach then generate_quiz with 3 questions;
\* progress, analyze_progress; general, teach.
C6_ExactlyThePlan ==
    \A c \in CallIds :
        LET call == calls[c]
            ops == InvokedOps(call)
            Op(i) == <<ops[i].op, ops[i].n>>
        IN call.pc = "done" =>
             CASE call.intent = "explanation" ->
                    /\ Len(ops) = 2
                    /\ Op(1) = <<"explain", 0>> /\ Op(2) = <<"teach", 0>>
                    /\ ops[2].context = Prefix(call.stage1, ContextLen)
               [] call.intent = "practice" ->
                    /\ Len(ops) = 2
                    /\ {Op(1), Op(2)} = {<<"generate_quiz", 5>>, <<"teach", 0>>}
               [] call.intent = "homework" ->
                    /\ Len(ops) = 2
                    /\ Op(1) = <<"teach", 0>> /\ Op(2) = <<"generate_quiz", 3>>
               [] call.intent = "progress" ->
                    Len(ops) = 1 /\ Op(1) = <<"analyze_progress", 0>>
               [] OTHER ->
                    Len(ops) = 1 /\ Op(1) = <<"teach", 0>>

\* C7: the classifier always yields one of the five intents and never ends
\* the call: when the completion raised or its reply held none of the five
\* tokens the intent is general and the call goes on with the teach-only plan.
C7_ClassifierFallsBackToGeneral ==
    \A c \in CallIds :
        LET call == calls[c]
        IN call.pc \notin {"idle", "intent"} =>
             /\ call.intent \in Intents
             /\ call.classifier \in {"raised", "no_token"} =>
                  /\ call.intent = "general"
                  /\ Len(InvokedOps(call)) = 1
                  /\ InvokedOps(call)[1].op = "teach"
                  /\ InvokedOps(call)[1].prefix = ""

C7_Witness ==
    \E c \in CallIds :
        /\ calls[c].classifier = "raised"
        /\ calls[c].pc = "done"
        /\ calls[c].outcome = "success"
        /\ calls[c].intent = "general"

\* C8: whatever Memory Store operations ran, no student's interactions log
\* holds more than 50 entries.
C8_LogWithinCap == \A s \in Students : Len(Log(s)) <= 50

C8_Witness == \E s \in Students : Len(added[s]) > 50 /\ Len(Log(s)) = 50

\* C9: once add_interaction has been called k > 50 times for a student, the log
\* is exactly the entries of the 50 most recent calls, in call order (so it has
\* 50 entries and the k-th call's entry is the last one).
C9_Last50InOrder ==
    \A s \in Students :
        Len(added[s]) > 50 =>
            /\ Len(Log(s)) = 50
            /\ \A i \in 1..50 : Log(s)[i] = added[s][Len(added[s]) - 50 + i]

C9_Witness ==
    \E s \in Students :
        /\ Len(added[s]) = 52
        /\ Log(s)[50] = added[s][52]
        /\ Log(s)[1] = added[s][3]
        /\ Log(s)[1].topic # Log(s)[50].topic

\* C10: after k > 50 add_interaction calls, compact_old_memories(student, threshold)
\* with threshold < k leaves a context summary whose per-topic counts are those
\* of the k - 50 entries that are no longer in interactions.
C10_DroppedEntriesSummarized ==
    [][\A s \in Students : \A t \in Thresholds :
          (CompactAt(s, t) /\ Len(added[s]) > 50 /\ t < Len(added[s]))
              => Summary(s)'.counts = TopicCounts(AllButLastN(added[s], 50))]_vars

\* the active sessions of student s
ActiveOf(ss, s) == {id \in DOMAIN ss : ss[id].student_id = s}

\* the ids of the sessions in a student's history, in the order they ended
EndedIds(h, s) == [i \in 1..Len(HistoryOf(h, s)) |-> HistoryOf(h, s)[i].session_id]

\* the id start_learning_session would leave current for s in this state
GetOrCreateId(st, s) ==
    IF get_current_session(st, s) # None
    THEN get_current_session(st, s)
    ELSE SessPool[created + 1]

\* C11: in every state reachable by Session Store operations, create_session
\* among them, the active session map holds at most one session of any one
\* student.
C11_OneActivePerStudent ==
    \A s \in Students : Cardinality(ActiveOf(sessions, s)) <= 1

\* C12: a start_learning_session call for a student whose previous
\* start_learning_session was followed by no end_session and no idle sweep of
\* a session of that student leaves the same session id current that the
\* previous call left, and draws no new session id.
C12_GetOrCreateIdempotent ==
    [][\A s \in SessStudents :
         (SessStart(s) /\ s \in DOMAIN started)
            => /\ get_current_session(SessionStore', s) = started[s]
               /\ created' = created]_vars

\* C13: cleanup_inactive_sessions(max_age_hours) ends exactly the active
\* sessions whose last_activity is more than max_age_hours old: they leave
\* the active map, the others stay as they were, each ended session is
\* appended (stamped) to its student's history in the order of creation, the
\* value returned is their number, and a get-or-create that follows for the
\* student of a swept session gives an id that is not a swept one.
C13_SweepEndsExactlyTheIdle ==
    [][\A m \in MaxAges :
         (session_history' # session_history /\ SessCleanup(m))
            => LET idle == {id \in DOMAIN sessions :
                              clock - sessions[id].last_activity > m * SecondsPerHour}
                   IdleOf(s) == SelectSeq(SessPool,
                                          LAMBDA id : id \in idle /\ sessions[id].student_id = s)
               IN /\ DOMAIN sessions' = (DOMAIN sessions) \ idle
                  /\ \A id \in DOMAIN sessions' : sessions'[id] = sessions[id]
                  /\ \A s \in Students :
                        /\ EndedIds(session_history', s)
                              = EndedIds(session_history, s) \o IdleOf(s)
                        /\ \A i \in 1..Len(HistoryOf(session_history, s)) :
                              HistoryOf(session_history', s)[i] = HistoryOf(session_history, s)[i]
                        /\ \A i \in 1..Len(IdleOf(s)) :
                              HistoryOf(session_history', s)[Len(HistoryOf(session_history, s)) + i]
                                = DictSet(sessions[IdleOf(s)[i]], "ended_at", clock)
                  /\ cleanup_inactive_sessions(SessionStore, SessPool, m, clock).value
                        = Cardinality(idle)
                  /\ \A id \in idle :
                        GetOrCreateId(SessionStore', sessions[id].student_id) \notin idle]_vars

\* a sweep has ended a session that was idle for an hour and has left
\* another, active within the hour, in the active map
C13_Witness ==
    /\ \E s \in Students : \E i \in 1..Len(HistoryOf(session_history, s)) :
          HistoryOf(session_history, s)[i].ended_at
             > HistoryOf(session_history, s)[i].last_activity
    /\ \E id \in DOMAIN sessions : sessions[id].last_activity = clock
    /\ clock > 0

\* C14: end_session on an active id removes it from the active map and
\* appends it, stamped, once to its student's history; in every state reached,
\* for an id that is not active (ended or never created), get_session gives
\* None and update_session, set_session_state and end_session return False and
\* leave the store as it is; no entry of a history ever changes and no id is
\* both active and in a history, or twice in the histories.
C14_LifecycleOneWay ==
    /\ [](/\ \A id \in SessIds \ DOMAIN sessions :
              /\ get_session(SessionStore, id) = None
              /\ ~ update_session_value(sessions, id)
              /\ update_session(sessions, id, <<"message", 0>>, <<"reply", 0>>, clock) = sessions
              /\ \A key \in StateKeys, value \in StateValues :
                    set_session_state(SessionStore, id, key, value)
                       = [store |-> SessionStore, value |-> FALSE]
              /\ end_session(SessionStore, id, clock) = [store |-> SessionStore, value |-> FALSE]
          /\ \A s \in Students : \A i \in 1..Len(HistoryOf(session_history, s)) :
              /\ EndedIds(session_history, s)[i] \notin DOMAIN sessions
              /\ \A t \in Students : \A j \in 1..Len(HistoryOf(session_history, t)) :
                    EndedIds(session_history, t)[j] = EndedIds(session_history, s)[i]
                       => (t = s /\ j = i))
    /\ [][/\ \A id \in DOMAIN sessions :
               (session_history' # session_history /\ SessEnd(id))
                  => LET s == sessions[id].student_id
                     IN /\ id \notin DOMAIN sessions'
                        /\ HistoryOf(session_history', s)
                              = Append(HistoryOf(session_history, s),
                                       DictSet(sessions[id], "ended_at", clock))
          /\ \A s \in Students : \A i \in 1..Len(HistoryOf(session_history, s)) :
               /\ Len(HistoryOf(session_history', s)) >= i
               /\ HistoryOf(session_history', s)[i] = HistoryOf(session_history, s)[i]]_vars

\* a session that took a pair has been ended, and another session of the
\* store is active
C14_Witness ==
    /\ \E s \in Students : \E i \in 1..Len(HistoryOf(session_history, s)) :
          /\ HistoryOf(session_history, s)[i].messages # <<>>
          /\ HistoryOf(session_history, s)[i].session_id \notin DOMAIN sessions
    /\ sessions # EmptyDict

\* C15: every active session holds at most 50 messages, and they are the
\* last 50 of the pairs appended to it, in the order they were appended (all
\* of them while no more than 50 were appended).
C15_MessagesWithinCap ==
    \A id \in DOMAIN sessions :
        /\ Len(sessions[id].messages) <= MessageCap
        /\ sessions[id].messages = LastN(PairsOf(id), MessageCap)

\* more than 50 pairs have been appended to an active session
C15_Witness == \E id \in DOMAIN sessions : Len(PairsOf(id)) > MessageCap

\* C16: once a route_query call has returned, the trace under its trace id
\* is ended, and stays so: with status success if the call returned on its
\* success path, with status error and the text of the error as its result if
\* it returned from the except block (the fallback text included).
C16_TraceEndedBeforeReturn ==
    \A c \in DOMAIN calls :
        calls[c].pc = "done"
           => /\ calls[c].trace_id \in DOMAIN traces
              /\ LET trace == traces[calls[c].trace_id]
                 IN IF calls[c].outcome = "success"
                    THEN trace.status = "success"
                    ELSE /\ trace.status = "error"
                         /\ trace.result = [error |-> calls[c].error.text]

\* C17: add_trace_event with an id that was never started changes no trace,
\* and the events of a trace that has ended (and is not started again) do not
\* change.
C17_EventsOnlyWhileInProgress ==
    /\ [](\A id \in ObsTraceIds \ DOMAIN traces :
             add_trace_event(traces, id, "step", EmptyDict, clock) = traces)
    /\ [][\A id \in DOMAIN traces :
             (traces[id].status \in ObsStatuses /\ traces'[id].status \in ObsStatuses)
                => traces'[id].events = traces[id].events]_vars

\* C18: when a route_query call that reached its plan returns, its trace
\* holds at least two events, the first of them intent_determined, and for the
\* parallel plan one more for each of the two branches; a call returning on
\* its success path has recorded one query_routed metric tagged with the
\* intent and one performance entry.
C18_TwoEventsAndMetrics ==
    [][\A c \in DOMAIN calls :
         (Completes(c) /\ calls'[c].intent # "")
            => LET events == traces'[calls'[c].trace_id].events
                   Routed(ms) == IF "query_routed" \in DOMAIN ms THEN ms["query_routed"] ELSE <<>>
               IN /\ Len(events) >= 2
                  /\ events[1].event = "intent_determined"
                  /\ calls'[c].intent = "practice" => Len(events) >= 3
                  /\ calls'[c].outcome = "success"
                        => /\ Len(Routed(metrics')) = Len(Routed(metrics)) + 1
                           /\ Routed(metrics')[Len(Routed(metrics'))].tags
                                 = [intent |-> calls'[c].intent]
                           /\ Len(performance_data') = Len(performance_data) + 1]_vars

\* C19: when all the threads that entered add_interaction for one student have
\* left it, the student's log is what calling add_interaction with their
\* entries one at a time, in some order, gives; and a concurrent reader never
\* gets a total_interactions above 50.
C19_WritesSerialized ==
    /\ observed <= HistoryCap
    /\ (\A t \in ThreadIds : threads[t].pc = "done")
          => \E order \in [ThreadIds -> ThreadIds] :
                /\ \A t \in ThreadIds : \E i \in ThreadIds : order[i] = t
                /\ LET prior == SubSeq(added[PriorStudent], 1,
                                       Len(added[PriorStudent]) - MaxThreads)
                       serial[i \in 0..MaxThreads] ==
                           IF i = 0 THEN prior
                           ELSE AppendCapped(serial[i - 1], threads[order[i]].interaction)
                   IN Shared.interactions = serial[MaxThreads]

\* C20: whether or not the save succeeds, the entry an add_interaction call
\* made is what get_interaction_history returns last right after the call, and
\* get_student_context counts it, for students already cached and for
\* students first seen while saving fails.
C20_FailedSaveKeepsChange ==
    [][\A s \in Students :
         Len(added'[s]) > Len(added[s])
            => /\ get_interaction_history(cache', s, 1, disk_ok', Len(added'[s]))
                    = <<added'[s][Len(added'[s])]>>
               /\ get_student_context(cache', s, disk_ok', Len(added'[s])).total_interactions
                    >= 1]_vars

\* C21: every route_query call that has started eventually returns a response
\* text, also when the completion service never answers an invocation.
C21_EveryCallReturns ==
    \A c \in CallIds :
        (calls[c].pc \notin {"idle", "done"})
            ~> (calls[c].pc = "done" /\ ~ IsNone(calls[c].response))

Occurrences(seq, x) == Cardinality({i \in 1..Len(seq) : seq[i] = x})

\* C24: after add_strength(id, x) (add_gap(id, x)), in any state, the list
\* holds x exactly once, and the same call made again changes nothing in the
\* record.
C24_SetAddIdempotent ==
    [][\A s \in Students : \A x \in ProfItems :
         /\ ProfAddStrength(s, x)
               => /\ Occurrences(cache'[s].profile.strengths, x) = 1
                  /\ add_strength(cache', s, x, disk_ok', Now(s)') = cache'
         /\ ProfAddGap(s, x)
               => /\ Occurrences(cache'[s].profile.gaps, x) = 1
                  /\ add_gap(cache', s, x, disk_ok', Now(s)') = cache']_vars

\* C25: no add_interaction call changes context_summary, and
\* compact_old_memories(student, threshold) leaves interactions and
\* context_summary unchanged when the log holds at most threshold entries;
\* when it holds more, the log becomes its 50 most recent entries, in order,
\* and the summary the per-topic counts of the older entries removed.
C25_CompactsOnlyBeyondThreshold ==
    [][\A s \in Students :
         /\ added'[s] # added[s] => Summary(s)' = Summary(s)
         /\ \A t \in Thresholds :
               CompactAt(s, t)
                  => IF Len(Log(s)) <= t
                     THEN /\ Log(s)' = Log(s)
                          /\ Summary(s)' = Summary(s)
                     ELSE /\ Log(s)' = LastN(Log(s), 50)
                          /\ Summary(s)'.counts
                                = TopicCounts(AllButLastN(Log(s), 50))]_vars

\* the Knowledge Lookup queries a call made from its except block
Lookups(call) ==
    Cardinality({i \in 1..Len(call.steps) : call.steps[i].kind = "lookup"})

C27_OwnTracePerCall ==
    /\ [](\A c, d \in DOMAIN calls :
             (c # d /\ calls[c].pc # "idle" /\ calls[d].pc # "idle")
                => calls[c].trace_id # calls[d].trace_id)
    /\ [][\A c \in DOMAIN calls :
             (calls[c].pc = "idle" /\ calls'[c].pc # "idle")
                => \A id \in DOMAIN traces : traces'[id] = traces[id]]_vars

\* C28: in every state the Session Store reaches, the current session id of a
\* student is a key of the active map and the session under it is that
\* student's; and ending a session that is not its student's current one
\* leaves the student's current id as it was.
C28_CurrentIsActiveAndOwn ==
    /\ [](\A s \in DOMAIN student_sessions :
             /\ student_sessions[s] \in DOMAIN sessions
             /\ sessions[student_sessions[s]].student_id = s)
    /\ [][\A id \in DOMAIN sessions :
             LET s == sessions[id].student_id
             IN (get_current_session(SessionStore, s) # id /\ SessEnd(id))
                   => get_current_session(SessionStore', s)
                        = get_current_session(SessionStore, s)]_vars

\* a session replaced by a later create_session has been ended while the
\* later one is current, and another student has a current session too
C28_Witness ==
    \E s \in Students : \E o \in Students \ {s} :
        /\ HistoryOf(session_history, s) # <<>>
        /\ s \in DOMAIN student_sessions
        /\ o \in DOMAIN student_sessions
        /\ \A i \in 1..Len(HistoryOf(session_history, s)) :
               HistoryOf(session_history, s)[i].created_at
                  <= sessions[student_sessions[s]].created_at

\* the add_interaction calls made for s whose query maps to topic
CallsOn(s, topic) == Cardinality({i \in 1..Len(added[s]) : added[s][i].topic = topic})

\* C29: for every student and topic, topics_studied holds an entry for the
\* topic exactly when add_interaction was called for the student with a query
\* of that topic, its count is the number of those calls (so it is not 0 and
\* not below the number of entries of the topic still in interactions), and
\* no step lowers a count.
C29_TopicCountsAllCalls ==
    /\ [](\A s \in Students : \A topic \in Topics :
             IF topic \in DOMAIN TopicsStudied(s)
             THEN /\ TopicsStudied(s)[topic].count = CallsOn(s, topic)
                  /\ TopicsStudied(s)[topic].count > 0
                  /\ TopicsStudied(s)[topic].count
                        >= Cardinality({i \in 1..Len(Log(s)) : Log(s)[i].topic = topic})
             ELSE CallsOn(s, topic) = 0)
    /\ [][\A s \in Students : \A topic \in DOMAIN TopicsStudied(s) :
             /\ topic \in DOMAIN TopicsStudied(s)'
             /\ TopicsStudied(s)'[topic].count >= TopicsStudied(s)[topic].count]_vars

\* interactions and context_summary of student s as a reader of cache c gets them
LogIn(c, s) == IF s \in DOMAIN c THEN c[s].interactions ELSE <<>>
SummaryIn(c, s) == IF s \in DOMAIN c THEN c[s].context_summary
                   ELSE NewMemory(s, 0).context_summary

\* C30: in every state the Memory Store's own operations reach, every log is
\* shorter than 100 entries, and compact_old_memories called for any student
\* with its default threshold of 100 returns leaving every student's
\* interactions and context_summary as they are.
C30_DefaultCompactionIdle ==
    \A s \in Students :
        /\ Len(Log(s)) < DefaultThreshold
        /\ LET after == compact_old_memories(cache, s, DefaultThreshold,
                                             disk_ok, Now(s))
           IN \A o \in Students :
                 /\ LogIn(after, o) = Log(o)
                 /\ SummaryIn(after, o) = Summary(o)

\* a log at its greatest length after more calls than it can hold, that no
\* compaction has summarised, and that the default compaction leaves alone
C30_Witness ==
    \E s \in Students :
        /\ Len(added[s]) > HistoryCap
        /\ Len(Log(s)) = HistoryCap
        /\ Summary(s).text = ""
        /\ compact_old_memories(cache, s, DefaultThreshold, disk_ok, Now(s)) = cache

====
